---- MODULE Spec2Model ----
(***************************************************************************)
(* Model of the analysis service of File-Parser: the plugin registry and   *)
(* the three backend plugins (analysis_service/plugins), the analyze/chat  *)
(* endpoints with their SSE bridge (analysis_service/server.py), the       *)
(* report parsers and the must-gather log correlator                       *)
(* (analysis_service/parsers).                                             *)
(***************************************************************************)
EXTENDS Integers, Sequences, FiniteSets, TLC

(***************************************************************************)
(* Bounds of the model.                                                    *)
(***************************************************************************)
\* register calls
MaxRegister == 3
\* initialize_all calls
MaxInitAll == 1
\* analyze and chat requests
MaxRequests == 2
\* chunks of one backend stream
MaxChunks == 2
\* log files of a must-gather tree
MaxLogFiles == 2
\* lines of a run output before a run of blank lines
MaxHeadLines == 2
\* blank lines in a row in a run output
MaxBlankLines == 10
\* command elements of a run
MaxCommands == 6
\* lines of an inbound event stream
MaxLines == 3
\* components of a requested file path
MaxPathLen == 3
\* batches of 500 entries committed while a job is indexed
MaxBatches == 2
\* the largest page number requested
MaxPage == 4
\* find_related_logs calls on the same inputs
MaxCalls == 2
\* health_check calls per plugin
MaxHealthChecks == 2
\* entries of a chat history
MaxHistory == 3
\* the largest whole number of PB of a file size; sizes stay below 2^53,
\* where int / 1024.0 is exact
MaxPB == 6
\* testsuite elements of a JUnit XML, test elements of a certification XML
MaxSuites == 2
\* testcase elements per testsuite, run elements per test
MaxCases == 2
\* files in the attachments directory
MaxFiles == 2
\* test cases per validation report
MaxFileCases == 1
\* rows of an HTML summary table, matches in a statistics div
MaxRows == 2
\* failure rows and marker lines of an HTML report
MaxFailRows == 1

(***************************************************************************)
(* Plugin names: the `name` property of GeminiPlugin, ClaudePlugin and     *)
(* MCPPlugin.                                                              *)
(***************************************************************************)
PluginNames == {"gemini", "claude", "mcp"}

\* Python None for a key that dict.get does not find.
None == "None"

VARIABLES
    \* ---- PluginRegistry and the plugin objects ----
    plugins,        \* PluginRegistry._plugins: dict, as a sequence of [name, inst] in insertion order
    initialized,    \* inst -> plugin.initialized
    nRegistered,    \* number of register calls so far (also the last instance id)
    lastRegistered, \* name -> instance most recently passed to register (0: none)
    iaPc,           \* initialize_all: "idle", "loop", "done", "raised"
    iaIdx,          \* initialize_all: position in _plugins.values()
    iaConfig,       \* initialize_all: the config argument
    iaRuns,         \* number of initialize_all calls started
    initCalls,      \* inst -> initialize calls in the current initialize_all
    initConfig,     \* inst -> config the last initialize call received
    initRaised,     \* inst -> its initialize raised in the current initialize_all
    lastInit,       \* the last initialize call: plugin, config, environment, outcome
    \* ---- one parser call ----
    parser,         \* which parser is called: "junit", "cert", "attachments", "html"
    pInput,         \* the artifact it is called on
    pResult,        \* the report it returned
    pDone,          \* the call has returned
    \* ---- the analysis server: one analyze or chat request at a time ----
    jobDir,         \* the extracted job directory the requests name
    cache,          \* test_results_cache: cache key -> parsed results
    req,            \* the request being served
    rStatus,        \* HTTP status of the response (0: none yet)
    ctx,            \* the AnalysisContext built for the request
    events,         \* the SSE events event_stream has yielded
    sPc,            \* event_stream: "none", "call", "iter", "except", "finally", "end"
    bPc,            \* the plugin's stream generator: "none", "start", "open", "failed"
    chunks,         \* chunks the backend stream has produced
    reqNet,         \* network calls made to the backend for this request
    backendFailed,  \* the backend failed during this streaming call
    nReq,           \* requests served so far
    conn,           \* the backend stream of this request: "none", "open", "closed"
    \* ---- MustGatherParser.find_related_logs ----
    lgInput,        \* must-gather tree, test name, error message, max_results
    lgOrder,        \* order in which list(keywords) came out in the last call
    lgResult,       \* the list of paths the last call returned
    lgCalls,        \* number of calls made
    \* ---- health_check of the plugins ----
    hcPc,           \* name -> "idle", "waiting" (request sent), "returned"
    hcResult,       \* name -> what the last health_check returned, and after what
    hcCalls         \* name -> health_check calls made

regVars == <<plugins, initialized, nRegistered, lastRegistered, iaPc, iaIdx,
             iaConfig, iaRuns, initCalls, initConfig, initRaised, lastInit>>

parseVars == <<parser, pInput, pResult, pDone>>

srvVars == <<jobDir, cache, req, rStatus, ctx, events, sPc, bPc, chunks, reqNet,
             backendFailed, nReq, conn>>

logVars == <<lgInput, lgOrder, lgResult, lgCalls>>

healthVars == <<hcPc, hcResult, hcCalls>>

nonRegVars == <<parseVars, srvVars, logVars, healthVars>>

nonParseVars == <<regVars, srvVars, logVars, healthVars>>

nonSrvVars == <<parseVars, logVars, healthVars>>

nonLogVars == <<regVars, parseVars, srvVars, healthVars>>

nonHealthVars == <<regVars, parseVars, srvVars, logVars>>

vars == <<regVars, parseVars, srvVars, logVars, healthVars>>

(***************************************************************************)
(* A Python dict as a sequence of entries in insertion order.              *)
(***************************************************************************)
DictKeys(d) == {d[i].name : i \in 1..Len(d)}

DictIndex(d, k) == CHOOSE i \in 1..Len(d) : d[i].name = k

\* dict.get(k): the value, or 0 for None
DictGet(d, k) == IF k \in DictKeys(d) THEN d[DictIndex(d, k)].inst ELSE 0

\* d[k] = v: an existing key keeps its position, a new key is appended
DictSet(d, k, v) ==
    IF k \in DictKeys(d)
    THEN [d EXCEPT ![DictIndex(d, k)] = [name |-> k, inst |-> v]]
    ELSE Append(d, [name |-> k, inst |-> v])

(***************************************************************************)
(* PluginRegistry.register, get, list_available, get_available_plugins     *)
(***************************************************************************)
\* a register that keeps the plugin already stored under the name
RegistryRegister_KeepFirst(d, name, inst) ==
    IF name \in DictKeys(d) THEN d ELSE Append(d, [name |-> name, inst |-> inst])

RegistryRegister(d, name, inst) == DictSet(d, name, inst)

RegistryGet(d, name) == DictGet(d, name)

\* list_available: one info dict per value of _plugins, in order
ListAvailable(d, init) ==
    [i \in 1..Len(d) |-> [name |-> d[i].name, initialized |-> init[d[i].inst]]]

\* get_available_plugins: list(_plugins.keys())
GetAvailablePlugins(d) == [i \in 1..Len(d) |-> d[i].name]

(***************************************************************************)
(* Plugin configuration and environment                                    *)
(***************************************************************************)
\* A plugin-specific config dict: the two keys the plugins read.
PluginConfigs ==
    { [api_key |-> None, server_url |-> None],
      [api_key |-> "",   server_url |-> ""],
      [api_key |-> "key", server_url |-> "http://mcp"] }

EmptyConfig == [api_key |-> None, server_url |-> None]

\* config.get(plugin.name, {})
ConfigGet(config, name) ==
    IF name \in DOMAIN config THEN config[name] ELSE EmptyConfig

\* `not s` for a Python str-or-None
Falsy(s) == s = None \/ s = ""

\* What the world does during one initialize call:
\*   ctorRaises: the SDK client constructor raises
\*   reachable:  the backend endpoint answers at all
\*   status:     the HTTP status of GET /health when it answers
InitEnvs ==
    {e \in [ctorRaises : BOOLEAN, reachable : BOOLEAN, status : {200, 500}] :
        ~e.reachable => e.status = 500}

InitResult(init, raised, net) == [initialized |-> init, raised |-> raised, net |-> net]

(***************************************************************************)
(* GeminiPlugin.initialize / ClaudePlugin.initialize: no network call; the *)
(* client constructor either returns or raises, and a raise is re-raised.  *)
(***************************************************************************)
GeminiInitialize(cfg, env) ==
    IF Falsy(cfg.api_key) THEN InitResult(FALSE, FALSE, 0)
    ELSE IF env.ctorRaises THEN InitResult(FALSE, TRUE, 0)
    ELSE InitResult(TRUE, FALSE, 0)

ClaudeInitialize(cfg, env) ==
    IF Falsy(cfg.api_key) THEN InitResult(FALSE, FALSE, 0)
    ELSE IF env.ctorRaises THEN InitResult(FALSE, TRUE, 0)
    ELSE InitResult(TRUE, FALSE, 0)

(***************************************************************************)
(* MCPPlugin.initialize: server_url defaults to http://localhost:9000,     *)
(* GET /health decides, every exception is swallowed.                      *)
(***************************************************************************)
MCPServerUrl(cfg) == IF cfg.server_url = None THEN "http://localhost:9000" ELSE cfg.server_url

MCPInitialize(cfg, env) ==
    IF Falsy(MCPServerUrl(cfg)) THEN InitResult(FALSE, FALSE, 0)
    ELSE IF env.ctorRaises THEN InitResult(FALSE, FALSE, 0)
    ELSE IF ~env.reachable THEN InitResult(FALSE, FALSE, 1)
    ELSE IF env.status = 200 THEN InitResult(TRUE, FALSE, 1)
    ELSE InitResult(FALSE, FALSE, 1)

PluginInitialize(name, cfg, env) ==
    CASE name = "gemini" -> GeminiInitialize(cfg, env)
      [] name = "claude" -> ClaudeInitialize(cfg, env)
      [] name = "mcp"    -> MCPInitialize(cfg, env)

(***************************************************************************)
(* PluginRegistry.initialize_all: the try/except around one initialize.    *)
(* TRUE: the loop goes on to the next plugin.                              *)
(***************************************************************************)
\* no except clause: a raising initialize ends the loop
InitAllContinues_NoExcept(raised) == ~raised

InitAllContinues(raised) == TRUE

(***************************************************************************)
(* Report parsers (analysis_service/parsers).  Durations and descriptive   *)
(* metadata (certification_info, product_info, ...) are not counted and    *)
(* are left out of the reports.                                            *)
(***************************************************************************)
\* sum of f(i) for i in 1..n
RECURSIVE SumTo(_, _)
SumTo(f, n) == IF n = 0 THEN 0 ELSE f[n] + SumTo(f, n - 1)

\* number of entries of a failures list with the given failure_type
CountType(failures, t) ==
    Cardinality({i \in 1..Len(failures) : failures[i].failure_type = t})

(***************************************************************************)
(* TempestXMLParser (JUnit XML).  A document is its root tag and the list  *)
(* of testsuite elements, each the list of its testcase elements; a        *)
(* testcase is the set of child tags it has.                               *)
(***************************************************************************)
JUnitChildren == {"failure", "error", "skipped"}

JUnitEmpty ==
    [total_tests |-> 0, passed |-> 0, failed |-> 0, skipped |-> 0, errors |-> 0,
     failures |-> <<>>]

JUnitFailure(name, type) == [test_name |-> name, failure_type |-> type]

\* a _parse_testcase whose branches do not return: every child present counts
ParseTestcase_NoReturn(tc, name, res) ==
    LET r1 == IF "failure" \in tc
              THEN [res EXCEPT !.failed = @ + 1,
                               !.failures = Append(@, JUnitFailure(name, "failure"))]
              ELSE res
        r2 == IF "error" \in tc
              THEN [r1 EXCEPT !.errors = @ + 1,
                              !.failures = Append(@, JUnitFailure(name, "error"))]
              ELSE r1
    IN IF "skipped" \in tc
       THEN [r2 EXCEPT !.skipped = @ + 1,
                       !.failures = Append(@, JUnitFailure(name, "skip"))]
       ELSE r2

\* a _parse_testcase that looks for error before failure
ParseTestcase_ErrorFirst(tc, name, res) ==
    IF "error" \in tc
    THEN [res EXCEPT !.errors = @ + 1,
                     !.failures = Append(@, JUnitFailure(name, "error"))]
    ELSE IF "failure" \in tc
    THEN [res EXCEPT !.failed = @ + 1,
                     !.failures = Append(@, JUnitFailure(name, "failure"))]
    ELSE IF "skipped" \in tc
    THEN [res EXCEPT !.skipped = @ + 1,
                     !.failures = Append(@, JUnitFailure(name, "skip"))]
    ELSE res

\* _parse_testcase: the first of failure, error, skipped that is present
ParseTestcase(tc, name, res) ==
    IF "failure" \in tc
    THEN [res EXCEPT !.failed = @ + 1,
                     !.failures = Append(@, JUnitFailure(name, "failure"))]
    ELSE IF "error" \in tc
    THEN [res EXCEPT !.errors = @ + 1,
                     !.failures = Append(@, JUnitFailure(name, "error"))]
    ELSE IF "skipped" \in tc
    THEN [res EXCEPT !.skipped = @ + 1,
                     !.failures = Append(@, JUnitFailure(name, "skip"))]
    ELSE res

\* _parse_testsuite: testcases k..Len(suite) of suite number s
RECURSIVE ParseTestsuiteFrom(_, _, _, _)
ParseTestsuiteFrom(suite, s, k, res) ==
    IF k > Len(suite) THEN res
    ELSE LET r == ParseTestcase(suite[k], <<s, k>>, res)
         IN ParseTestsuiteFrom(suite, s, k + 1, [r EXCEPT !.total_tests = @ + 1])

RECURSIVE ParseSuitesFrom(_, _, _)
ParseSuitesFrom(suites, s, res) ==
    IF s > Len(suites) THEN res
    ELSE ParseSuitesFrom(suites, s + 1, ParseTestsuiteFrom(suites[s], s, 1, res))

\* TempestXMLParser.parse
TempestXMLParse(doc) ==
    LET r == IF doc.root = "testsuites" THEN ParseSuitesFrom(doc.suites, 1, JUnitEmpty)
             ELSE IF doc.root = "testsuite" THEN ParseTestsuiteFrom(doc.suites[1], 1, 1, JUnitEmpty)
             ELSE JUnitEmpty
        passed == r.total_tests - r.failed - r.skipped - r.errors
    IN [r EXCEPT !.passed = IF passed < 0 THEN 0 ELSE passed]

(***************************************************************************)
(* RHCertXMLParser (certification XML).  A document is the list of test    *)
(* elements, each the list of its run elements; a run is the data-value of *)
(* its summary, or NoSummary when it has no summary element.               *)
(***************************************************************************)
NoSummary == "<no summary>"

RunStatuses == {"PASS", "FAIL", "REVIEW", "SKIP", "review", "UNKNOWN", NoSummary}

\* str.upper() on the data-values of the model
Upper(s) == IF s = "review" THEN "REVIEW" ELSE s

CertEmpty ==
    [total_tests |-> 0, passed |-> 0, failed |-> 0, skipped |-> 0, errors |-> 0,
     review |-> 0, failures |-> <<>>]

\* _parse_failure: one record of type 'failure' for the run
CertParseFailure(name, res) ==
    [res EXCEPT !.failures = Append(@, [test_name |-> name, failure_type |-> "failure"])]

\* a categorisation that treats REVIEW as a failure
CertParseRun_ReviewAsFail(status, name, res) ==
    LET r == [res EXCEPT !.total_tests = @ + 1]
    IN IF status = NoSummary THEN r
       ELSE IF Upper(status) = "PASS" THEN [r EXCEPT !.passed = @ + 1]
       ELSE IF Upper(status) \in {"FAIL", "REVIEW"}
       THEN CertParseFailure(name, [r EXCEPT !.failed = @ + 1])
       ELSE IF Upper(status) = "SKIP" THEN [r EXCEPT !.skipped = @ + 1]
       ELSE [r EXCEPT !.errors = @ + 1]

\* the body of the loop over runs in RHCertXMLParser.parse
CertParseRun(status, name, res) ==
    LET r == [res EXCEPT !.total_tests = @ + 1]
    IN IF status = NoSummary THEN r
       ELSE IF Upper(status) = "PASS" THEN [r EXCEPT !.passed = @ + 1]
       ELSE IF Upper(status) = "FAIL"
       THEN CertParseFailure(name, [r EXCEPT !.failed = @ + 1])
       ELSE IF Upper(status) = "REVIEW"
       THEN [r EXCEPT !.review = @ + 1,
                      !.failures = Append(@, [test_name |-> name, failure_type |-> "review"])]
       ELSE IF Upper(status) = "SKIP" THEN [r EXCEPT !.skipped = @ + 1]
       ELSE [r EXCEPT !.errors = @ + 1]

RECURSIVE CertParseRunsFrom(_, _, _, _)
CertParseRunsFrom(runs, t, k, res) ==
    IF k > Len(runs) THEN res
    ELSE CertParseRunsFrom(runs, t, k + 1, CertParseRun(runs[k], <<t, k>>, res))

RECURSIVE CertParseTestsFrom(_, _, _)
CertParseTestsFrom(tests, t, res) ==
    IF t > Len(tests) THEN res
    ELSE CertParseTestsFrom(tests, t + 1, CertParseRunsFrom(tests[t], t, 1, res))

\* RHCertXMLParser.parse
RHCertXMLParse(doc) == CertParseTestsFrom(doc, 1, CertEmpty)

(***************************************************************************)
(* RHCertXMLParser._parse_failure: the error message.  The text of the     *)
(* output element is the list of its lines; a line is its text and its     *)
(* length, and a message is a line cut to a length.                        *)
(***************************************************************************)
BlankLine == [text |-> "", len |-> 0]

OutputLines ==
    {BlankLine,
     [text |-> "   ", len |-> 3],
     [text |-> "starting test", len |-> 13],
     [text |-> "Error: disk full", len |-> 16],
     [text |-> "TEST FAILED in setup ...", len |-> 300],
     [text |-> "long progress line ...", len |-> 250]}

\* any(word in line.lower() for word in ['error', 'fail', 'exception', 'traceback'])
HasErrorWord(line) == line.text \in {"Error: disk full", "TEST FAILED in setup ..."}

\* l.strip() is empty
IsBlankLine(line) == line.text \in {"", "   "}

IsNotBlankLine(line) == ~IsBlankLine(line)

MessageLimit == 200

TailLines == 10

\* line[:n]
Truncate(line, n) == [line EXCEPT !.len = IF @ < n THEN @ ELSE n]

RECURSIVE DropLeadingBlank(_)
DropLeadingBlank(lines) ==
    IF lines = <<>> THEN <<>>
    ELSE IF IsBlankLine(lines[1]) THEN DropLeadingBlank(Tail(lines))
    ELSE lines

RECURSIVE DropTrailingBlank(_)
DropTrailingBlank(lines) ==
    IF lines = <<>> THEN <<>>
    ELSE IF IsBlankLine(lines[Len(lines)])
    THEN DropTrailingBlank(SubSeq(lines, 1, Len(lines) - 1))
    ELSE lines

\* output.text.strip().split('\n'): the text without the white space at its
\* two ends; the empty text splits into one empty line
StripSplit(lines) ==
    LET stripped == DropTrailingBlank(DropLeadingBlank(lines))
    IN IF stripped = <<>> THEN <<BlankLine>> ELSE stripped

\* lines[-10:]
LastLines(lines, n) ==
    SubSeq(lines, IF Len(lines) > n THEN Len(lines) - n + 1 ELSE 1, Len(lines))

DefaultMessage == [text |-> "Test '<test_name>' failed", len |-> 25]

\* a _parse_failure that takes the whole line
FailureErrorMessage_Whole(run) ==
    IF ~run.has_output \/ run.output = <<>> \/ run.output = <<BlankLine>>
    THEN DefaultMessage
    ELSE LET lines == StripSplit(run.output)
             matching == SelectSeq(lines, HasErrorWord)
             traceback_lines == IF matching # <<>> THEN matching
                                ELSE SelectSeq(LastLines(lines, TailLines), IsNotBlankLine)
         IN IF traceback_lines # <<>> THEN traceback_lines[1] ELSE DefaultMessage

\* _parse_failure: error_message
FailureErrorMessage(run) ==
    IF ~run.has_output \/ run.output = <<>> \/ run.output = <<BlankLine>>
    THEN DefaultMessage
    ELSE LET lines == StripSplit(run.output)
             matching == SelectSeq(lines, HasErrorWord)
             traceback_lines == IF matching # <<>> THEN matching
                                ELSE SelectSeq(LastLines(lines, TailLines), IsNotBlankLine)
         IN IF traceback_lines # <<>> THEN Truncate(traceback_lines[1], MessageLimit)
            ELSE DefaultMessage

\* _parse_failure: traceback_lines after the output has been read; an entry of
\* the list is the text lines it holds and the command it comes from (0 for
\* the output)
OutputTracebackLines(run) ==
    IF ~run.has_output \/ run.output = <<>> \/ run.output = <<BlankLine>>
    THEN <<>>
    ELSE LET lines == StripSplit(run.output)
             matching == SelectSeq(lines, HasErrorWord)
             traceback_lines == IF matching # <<>> THEN matching
                                ELSE SelectSeq(LastLines(lines, TailLines), IsNotBlankLine)
         IN [i \in 1..Len(traceback_lines) |-> [kind |-> "output", cmd |-> 0, lines |-> 1]]

\* cmd.get('return-value') != '0'; a command without the attribute gives None
IsFailedCommand(cmd) == cmd.rc # "0"

\* the positions of the failed commands, in document order
RECURSIVE FailedCommandsFrom(_, _)
FailedCommandsFrom(commands, k) ==
    IF k > Len(commands) THEN <<>>
    ELSE IF IsFailedCommand(commands[k])
    THEN <<k>> \o FailedCommandsFrom(commands, k + 1)
    ELSE FailedCommandsFrom(commands, k + 1)

ShownCommands == 5

TracebackLimit == 50

\* the loop over failed_commands[:5]: "Command failed (RC=..): .." and, when
\* the stderr text is not empty, "  Error: <stderr text>" with the line breaks
\* of that text
RECURSIVE CommandErrorsFrom(_, _, _)
CommandErrorsFrom(commands, failed, k) ==
    IF k > Len(failed) \/ k > ShownCommands THEN <<>>
    ELSE LET cmd == commands[failed[k]]
         IN <<[kind |-> "command", cmd |-> failed[k], lines |-> 1]>>
            \o (IF cmd.stderr > 0
                THEN <<[kind |-> "stderr", cmd |-> failed[k], lines |-> cmd.stderr]>>
                ELSE <<>>)
            \o CommandErrorsFrom(commands, failed, k + 1)

\* traceback_lines[:50]
FirstEntries(entries, n) == SubSeq(entries, 1, IF Len(entries) < n THEN Len(entries) ELSE n)

\* _parse_failure: the record appended to failures
ParseFailure(run) ==
    LET failed_commands == FailedCommandsFrom(run.commands, 1)
        traceback_lines == OutputTracebackLines(run)
                           \o CommandErrorsFrom(run.commands, failed_commands, 1)
    IN [test_name |-> run.test_name, failure_type |-> "failure",
        error_message |-> FailureErrorMessage(run),
        traceback |-> FirstEntries(traceback_lines, TracebackLimit),
        failed_commands_count |-> Len(failed_commands)]

(***************************************************************************)
(* RHCertAttachmentParser (component validation reports).  The attachments *)
(* directory is the list of files os.walk finds; a file has a name and,    *)
(* when json.load succeeds, an optional `total` object and the list of its *)
(* test cases.                                                             *)
(***************************************************************************)
NoTotal == [tests |-> -1, success |-> -1, failures |-> -1, skipped |-> -1, errors |-> -1]

AttachmentFileNames ==
    {"neutron_ipv4-validation_report.json",
     "cinder_volumes-validation_report.json",
     "nova-validation_report.json"}

\* file.endswith('-validation_report.json') and file.lower() starts with
\* neutron, cinder or manila
IsValidationFile(fname) ==
    fname \in {"neutron_ipv4-validation_report.json",
               "cinder_volumes-validation_report.json"}

\* _extract_component_name: the file name without '-validation_report.json'
ExtractComponentName(fname) ==
    CASE fname = "neutron_ipv4-validation_report.json" -> "neutron_ipv4"
      [] fname = "cinder_volumes-validation_report.json" -> "cinder_volumes"
      [] fname = "nova-validation_report.json" -> "nova"

\* _find_validation_files
RECURSIVE FindValidationFilesFrom(_, _)
FindValidationFilesFrom(files, k) ==
    IF k > Len(files) THEN <<>>
    ELSE IF IsValidationFile(files[k].fname)
         THEN <<files[k]>> \o FindValidationFilesFrom(files, k + 1)
         ELSE FindValidationFilesFrom(files, k + 1)

ComponentEmpty(component) ==
    [component_name |-> component, total_tests |-> 0, passed |-> 0, failed |-> 0,
     skipped |-> 0, errors |-> 0, failures |-> <<>>, skipped_tests |-> <<>>]

\* the loop over test_cases in _parse_validation_file
RECURSIVE ParseTestCasesFrom(_, _, _)
ParseTestCasesFrom(cases, k, res) ==
    IF k > Len(cases) THEN res
    ELSE LET c == cases[k]
             r == IF c.status = "FAIL" /\ c.failure
                  THEN [res EXCEPT !.failures =
                            Append(@, [test_name |-> k, component |-> res.component_name,
                                       failure_type |-> "failure"])]
                  ELSE IF c.status = "SKIP"
                  THEN [res EXCEPT !.skipped_tests =
                            Append(@, [test_name |-> k, component |-> res.component_name,
                                       failure_type |-> "skipped"])]
                  ELSE res
         IN ParseTestCasesFrom(cases, k + 1, r)

\* _parse_validation_file: a file that cannot be loaded gives the zero record
ParseValidationFile(file, component) ==
    IF ~file.loads THEN ComponentEmpty(component)
    ELSE LET r0 == ComponentEmpty(component)
             r1 == IF file.total # NoTotal
                   THEN [r0 EXCEPT !.total_tests = file.total.tests,
                                   !.passed = file.total.success,
                                   !.failed = file.total.failures,
                                   !.skipped = file.total.skipped,
                                   !.errors = file.total.errors]
                   ELSE r0
         IN ParseTestCasesFrom(file.cases, 1, r1)

AttachmentEmpty ==
    [components |-> <<>>, total_tests |-> 0, passed |-> 0, failed |-> 0, skipped |-> 0,
     errors |-> 0, failures |-> <<>>, skipped_tests |-> <<>>,
     components_summary |-> << >>]

\* components_summary[name] = value on a dict given as a function
SummarySet(summary, name, value) ==
    [n \in DOMAIN summary \cup {name} |-> IF n = name THEN value ELSE summary[n]]

\* an aggregation that keeps the counts of the last component
RECURSIVE AggregateFrom_LastWins(_, _, _)
AggregateFrom_LastWins(vfiles, k, res) ==
    IF k > Len(vfiles) THEN res
    ELSE LET name == ExtractComponentName(vfiles[k].fname)
             c == ParseValidationFile(vfiles[k], name)
         IN AggregateFrom_LastWins(vfiles, k + 1,
               [res EXCEPT !.components = Append(@, c),
                           !.total_tests = c.total_tests,
                           !.passed = c.passed,
                           !.failed = c.failed,
                           !.skipped = c.skipped,
                           !.errors = c.errors,
                           !.failures = @ \o c.failures,
                           !.skipped_tests = @ \o c.skipped_tests,
                           !.components_summary =
                               SummarySet(@, name,
                                   [total |-> c.total_tests, passed |-> c.passed,
                                    failed |-> c.failed, skipped |-> c.skipped])])

\* the loop over validation files in RHCertAttachmentParser.parse
RECURSIVE AggregateFrom(_, _, _)
AggregateFrom(vfiles, k, res) ==
    IF k > Len(vfiles) THEN res
    ELSE LET name == ExtractComponentName(vfiles[k].fname)
             c == ParseValidationFile(vfiles[k], name)
         IN AggregateFrom(vfiles, k + 1,
               [res EXCEPT !.components = Append(@, c),
                           !.total_tests = @ + c.total_tests,
                           !.passed = @ + c.passed,
                           !.failed = @ + c.failed,
                           !.skipped = @ + c.skipped,
                           !.errors = @ + c.errors,
                           !.failures = @ \o c.failures,
                           !.skipped_tests = @ \o c.skipped_tests,
                           !.components_summary =
                               SummarySet(@, name,
                                   [total |-> c.total_tests, passed |-> c.passed,
                                    failed |-> c.failed, skipped |-> c.skipped])])

\* RHCertAttachmentParser.parse
RHCertAttachmentParse(dir) ==
    IF ~dir.exists THEN AttachmentEmpty
    ELSE AggregateFrom(FindValidationFilesFrom(dir.files, 1), 1, AttachmentEmpty)

(***************************************************************************)
(* TempestHTMLParser.  A document has an optional summary table (rows of   *)
(* label and first number of the value cell), an optional statistics div   *)
(* (the (number, word) pairs its text matches), the failure rows found by  *)
(* class, and the marker lines of its plain text.  Rows labelled time or   *)
(* duration set only the duration.                                         *)
(***************************************************************************)
\* the substrings among total, pass, fail, skip, error that a label contains
LabelTokens(label) ==
    CASE label = "total tests"  -> {"total"}
      [] label = "passed"       -> {"pass"}
      [] label = "failed"       -> {"fail"}
      [] label = "skipped"      -> {"skip"}
      [] label = "errors"       -> {"error"}
      [] label = "total failed" -> {"total", "fail"}

HTMLTableLabels == {"total tests", "passed", "failed", "skipped", "errors", "total failed"}

HTMLStatsWords == {"test", "pass", "fail", "error", "skip"}

HTMLEmpty ==
    [total_tests |-> 0, passed |-> 0, failed |-> 0, skipped |-> 0, errors |-> 0,
     failures |-> <<>>]

\* one row of the summary table: the first matching branch of the if/elif chain
HTMLSummaryRow(row, res) ==
    LET t == LabelTokens(row.label)
    IN IF "total" \in t THEN [res EXCEPT !.total_tests = row.value]
       ELSE IF "pass" \in t THEN [res EXCEPT !.passed = row.value]
       ELSE IF "fail" \in t THEN [res EXCEPT !.failed = row.value]
       ELSE IF "skip" \in t THEN [res EXCEPT !.skipped = row.value]
       ELSE IF "error" \in t THEN [res EXCEPT !.errors = row.value]
       ELSE res

\* one (number, word) match of the statistics div
HTMLStatsPair(pair, res) ==
    IF pair.label = "test" THEN [res EXCEPT !.total_tests = pair.value]
    ELSE IF pair.label = "pass" THEN [res EXCEPT !.passed = pair.value]
    ELSE IF pair.label = "fail" THEN [res EXCEPT !.failed = pair.value]
    ELSE IF pair.label = "error" THEN [res EXCEPT !.errors = pair.value]
    ELSE IF pair.label = "skip" THEN [res EXCEPT !.skipped = pair.value]
    ELSE res

RECURSIVE HTMLRowsFrom(_, _, _)
HTMLRowsFrom(rows, k, res) ==
    IF k > Len(rows) THEN res ELSE HTMLRowsFrom(rows, k + 1, HTMLSummaryRow(rows[k], res))

RECURSIVE HTMLPairsFrom(_, _, _)
HTMLPairsFrom(pairs, k, res) ==
    IF k > Len(pairs) THEN res ELSE HTMLPairsFrom(pairs, k + 1, HTMLStatsPair(pairs[k], res))

\* _parse_summary
HTMLParseSummary(doc, res) ==
    LET r == IF doc.hasTable THEN HTMLRowsFrom(doc.table, 1, res) ELSE res
    IN IF doc.hasStats /\ ~doc.hasTable
       THEN HTMLPairsFrom(doc.stats, 1, r) ELSE r

\* _parse_failure_row for each row found: a row without a test name is dropped
RECURSIVE HTMLFailureRowsFrom(_, _)
HTMLFailureRowsFrom(rows, k) ==
    IF k > Len(rows) THEN <<>>
    ELSE IF rows[k].named
         THEN <<[test_name |-> k,
                 failure_type |-> IF rows[k].class = "error" THEN "error" ELSE "failure"]>>
              \o HTMLFailureRowsFrom(rows, k + 1)
         ELSE HTMLFailureRowsFrom(rows, k + 1)

\* _parse_failures_from_text: a line with FAILED or ERROR opens a record
RECURSIVE HTMLTextFailuresFrom(_, _)
HTMLTextFailuresFrom(lines, k) ==
    IF k > Len(lines) THEN <<>>
    ELSE IF lines[k] \in {"FAILED", "ERROR"}
         THEN <<[test_name |-> k,
                 failure_type |-> IF lines[k] = "ERROR" THEN "error" ELSE "failure"]>>
              \o HTMLTextFailuresFrom(lines, k + 1)
         ELSE HTMLTextFailuresFrom(lines, k + 1)

\* _parse_test_results
HTMLParseTestResults(doc, res) ==
    LET structured == HTMLFailureRowsFrom(doc.rows, 1)
    IN IF structured = <<>> /\ (res.failed > 0 \/ res.errors > 0)
       THEN [res EXCEPT !.failures = HTMLTextFailuresFrom(doc.lines, 1)]
       ELSE [res EXCEPT !.failures = structured]

\* TempestHTMLParser.parse
TempestHTMLParse(doc) == HTMLParseTestResults(doc, HTMLParseSummary(doc, HTMLEmpty))

(***************************************************************************)
(* MustGatherParser (parsers/mustgather.py).  Text is modelled by words:   *)
(* a test name is the list of its words joined by "_", an error message    *)
(* the list of its words joined by spaces, a file name the list of its     *)
(* dot-separated parts, each the set of words it is made of, and a log     *)
(* line the set of its words.  All text is lower case.                     *)
(***************************************************************************)
\* the words that are substrings of word w
Within(w) ==
    CASE w = "failure" -> {"failure", "fail"}
      [] w = "errors" -> {"errors", "error"}
      [] w = "volumes" -> {"volumes", "volume"}
      [] w = "novaclient" -> {"novaclient", "nova"}
      [] OTHER -> {w}

\* `word in text` for a text given by its set of words
ContainsWord(words, word) == \E w \in words : word \in Within(w)

\* len(part) > 3
LongWords == {"test", "volume", "volumes", "create", "nova", "cinder", "timeout",
              "failure", "errors", "error", "found", "novaclient"}

IsUuid(w) == w \in {"uuid-1", "uuid-2"}

Range(f) == {f[i] : i \in DOMAIN f}

Services == {"nova", "cinder", "neutron", "glance", "keystone", "heat", "swift"}

Resources == {"volume", "instance", "network", "port", "router", "image", "server",
              "snapshot"}

ErrorTypes == {"timeout", "error", "failure", "exception", "denied", "conflict"}

\* 'not found' in error_message.lower()
HasNotFound(msg) ==
    \E i \in 1..(Len(msg) - 1) : msg[i] = "not" /\ msg[i + 1] = "found"

\* re.findall(uuid_pattern, error_message.lower())[:3]
FirstUuids(msg) ==
    LET u == SelectSeq(msg, IsUuid)
    IN {u[i] : i \in 1..(IF Len(u) < 3 THEN Len(u) ELSE 3)}

\* _extract_keywords before list(keywords): the set of keywords
ExtractKeywordSet(test_name, error_message) ==
    {w \in Range(test_name) : w \in LongWords}
    \cup {sv \in Services : ContainsWord(Range(error_message), sv)}
    \cup {r \in Resources : \/ ContainsWord(Range(error_message), r)
                            \/ ContainsWord(Range(test_name), r)}
    \cup {e \in ErrorTypes : ContainsWord(Range(error_message), e)}
    \cup (IF HasNotFound(error_message) THEN {"not_found"} ELSE {})
    \cup FirstUuids(error_message)

\* _extract_keywords: list(keywords) comes out in the iteration order of the
\* set, which is any order of its elements
ExtractKeywords(test_name, error_message) ==
    LET K == ExtractKeywordSet(test_name, error_message)
    IN {o \in [1..Cardinality(K) -> K] : \A i, j \in 1..Cardinality(K) :
                                            o[i] = o[j] => i = j}

LogExtensions == {"log", "txt", "out", "err"}

\* any(file.endswith(ext) for ext in self.log_extensions)
HasLogExtension(file) ==
    /\ Len(file.parts) >= 2
    /\ \E e \in LogExtensions : file.parts[Len(file.parts)] = {e}

\* `keyword in filename`
InFilename(file, keyword) ==
    \E i \in 1..Len(file.parts) : ContainsWord(file.parts[i], keyword)

\* a score that stops at the first keyword found in the file name
RECURSIVE CalculateRelevanceScore_FirstMatch(_, _, _, _)
CalculateRelevanceScore_FirstMatch(file, keywords, k, score) ==
    IF k > Len(keywords) THEN score
    ELSE IF InFilename(file, keywords[k])
    THEN IF file.parts[1] = {keywords[k]} THEN score + 5 ELSE score + 2
    ELSE CalculateRelevanceScore_FirstMatch(file, keywords, k + 1, score)

\* _calculate_relevance_score: the loop over keywords from position k
RECURSIVE CalculateRelevanceScore(_, _, _, _)
CalculateRelevanceScore(file, keywords, k, score) ==
    IF k > Len(keywords) THEN score
    ELSE CalculateRelevanceScore(file, keywords, k + 1,
            IF InFilename(file, keywords[k])
            THEN IF file.parts[1] = {keywords[k]} THEN score + 5 ELSE score + 2
            ELSE score)

ScanMaxLines == 500

\* 'error' in line_lower or 'warn' in line_lower or 'fail' in line_lower
MarkedLine(line) == \E m \in {"error", "warn", "fail"} : ContainsWord(line, m)

\* _scan_log_content: the loop over keywords for one line
RECURSIVE ScanLine(_, _, _, _)
ScanLine(line, keywords, k, score) ==
    IF k > Len(keywords) THEN score
    ELSE ScanLine(line, keywords, k + 1,
            IF ContainsWord(line, keywords[k])
            THEN IF MarkedLine(line) THEN score + 3 ELSE score + 1
            ELSE score)

\* _scan_log_content: the loop over lines
RECURSIVE ScanLogContent(_, _, _, _)
ScanLogContent(lines, keywords, i, score) ==
    IF i > Len(lines) \/ i > ScanMaxLines THEN score
    ELSE ScanLogContent(lines, keywords, i + 1, ScanLine(lines[i], keywords, 1, score))

\* find_related_logs: the loop over the walked files from position k
RECURSIVE RelatedLogsFrom(_, _, _, _)
RelatedLogsFrom(files, keywords, k, related) ==
    IF k > Len(files) THEN related
    ELSE LET file == files[k]
             filename_score == CalculateRelevanceScore(file, keywords, 1, 0)
             content_score == IF file.small
                              THEN ScanLogContent(file.lines, keywords, 1, 0)
                              ELSE 0
             total_score == filename_score + content_score
         IN RelatedLogsFrom(files, keywords, k + 1,
               IF HasLogExtension(file) /\ filename_score > 0 /\ total_score > 0
               THEN Append(related, [path |-> file.path, score |-> total_score])
               ELSE related)

\* an insertion that puts x in front of the entries of equal score
RECURSIVE InsertByScore_BeforeEqual(_, _, _)
InsertByScore_BeforeEqual(sorted, x, k) ==
    IF k > Len(sorted) THEN Append(sorted, x)
    ELSE IF sorted[k].score <= x.score
    THEN SubSeq(sorted, 1, k - 1) \o <<x>> \o SubSeq(sorted, k, Len(sorted))
    ELSE InsertByScore_BeforeEqual(sorted, x, k + 1)

\* insert x behind the entries whose score is not smaller
RECURSIVE InsertByScore(_, _, _)
InsertByScore(sorted, x, k) ==
    IF k > Len(sorted) THEN Append(sorted, x)
    ELSE IF sorted[k].score < x.score
    THEN SubSeq(sorted, 1, k - 1) \o <<x>> \o SubSeq(sorted, k, Len(sorted))
    ELSE InsertByScore(sorted, x, k + 1)

\* related_logs.sort(key=score, reverse=True): stable, equal scores keep
\* their walk order
RECURSIVE SortByScore(_, _, _)
SortByScore(logs, k, sorted) ==
    IF k > Len(logs) THEN sorted
    ELSE SortByScore(logs, k + 1, InsertByScore(sorted, logs[k], 1))

\* find_related_logs with the keyword list in the order `keywords`
FindRelatedLogs(input, keywords) ==
    IF ~input.exists THEN <<>>
    ELSE IF keywords = <<>> THEN <<>>
    ELSE LET sorted == SortByScore(RelatedLogsFrom(input.files, keywords, 1, <<>>),
                                   1, <<>>)
             n == IF Len(sorted) < input.max_results THEN Len(sorted)
                  ELSE input.max_results
         IN [i \in 1..n |-> sorted[i].path]

NoLogInput == [exists |-> FALSE, files |-> <<>>, test_name |-> <<>>,
               error_message |-> <<>>, max_results |-> 0]

(***************************************************************************)
(* Initial state of the registry: PluginRegistry.__init__ and, for every   *)
(* plugin object, AIBackendPlugin.__init__ (initialized = False).          *)
(***************************************************************************)
Insts == 1..MaxRegister

NoInit == [name |-> "none", cfg |-> EmptyConfig,
           env |-> [ctorRaises |-> FALSE, reachable |-> FALSE, status |-> 500],
           initialized |-> FALSE, raised |-> FALSE]

ParseIdle ==
    /\ parser = "none"
    /\ pInput = <<>>
    /\ pResult = <<>>
    /\ pDone = FALSE

NoReq == [endpoint |-> "none", backend |-> "none", stream |-> FALSE, test_folder |-> "none",
          extract_path |-> "none"]

NoCtx == [test_failures |-> <<>>, test_summary |-> << >>, built |-> FALSE]

NoJob == [folder |-> FALSE, tempest |-> "absent", suites |-> <<>>,
          attachments |-> [exists |-> FALSE, files |-> <<>>], cert |-> <<>>]

SrvIdle ==
    /\ jobDir = NoJob
    /\ cache = << >>
    /\ req = NoReq
    /\ rStatus = 0
    /\ ctx = NoCtx
    /\ events = <<>>
    /\ sPc = "none"
    /\ bPc = "none"
    /\ chunks = 0
    /\ reqNet = 0
    /\ backendFailed = FALSE
    /\ nReq = 0
    /\ conn = "none"

RegistryNew ==
    /\ plugins = <<>>
    /\ initialized = [i \in Insts |-> FALSE]
    /\ nRegistered = 0
    /\ lastRegistered = [n \in PluginNames |-> 0]
    /\ iaPc = "idle"
    /\ iaIdx = 0
    /\ iaConfig = << >>
    /\ iaRuns = 0
    /\ initCalls = [i \in Insts |-> 0]
    /\ initConfig = [i \in Insts |-> EmptyConfig]
    /\ initRaised = [i \in Insts |-> FALSE]
    /\ lastInit = NoInit

LogIdle ==
    /\ lgInput = NoLogInput
    /\ lgOrder = <<>>
    /\ lgResult = <<>>
    /\ lgCalls = 0

HealthIdle ==
    /\ hcPc = [n \in PluginNames |-> "idle"]
    /\ hcResult = [n \in PluginNames |-> [value |-> FALSE, after |-> "none"]]
    /\ hcCalls = [n \in PluginNames |-> 0]

RegInit == RegistryNew /\ ParseIdle /\ SrvIdle /\ LogIdle /\ HealthIdle

\* registry.register(plugin) with a new plugin object of class `name`
Register(name) ==
    /\ iaPc # "loop"
    /\ nRegistered < MaxRegister
    /\ nRegistered' = nRegistered + 1
    /\ plugins' = RegistryRegister(plugins, name, nRegistered + 1)
    /\ lastRegistered' = [lastRegistered EXCEPT ![name] = nRegistered + 1]
    /\ iaPc' = "idle"
    /\ UNCHANGED <<initialized, iaIdx, iaConfig, iaRuns, initCalls, initConfig,
                   initRaised, lastInit, nonRegVars>>

\* The config dicts initialize_all can be called with.
InitAllConfigs ==
    UNION {[S -> PluginConfigs] : S \in SUBSET PluginNames}

\* initialize_all(config): entry
InitAllBegin(config) ==
    /\ iaPc # "loop"
    /\ iaRuns < MaxInitAll
    /\ iaRuns' = iaRuns + 1
    /\ iaPc' = "loop"
    /\ iaIdx' = 1
    /\ iaConfig' = config
    /\ initCalls' = [i \in Insts |-> 0]
    /\ initRaised' = [i \in Insts |-> FALSE]
    /\ UNCHANGED <<plugins, initialized, nRegistered, lastRegistered, initConfig, lastInit,
                   nonRegVars>>

\* one iteration: plugin_config = config.get(plugin.name, {}); await plugin.initialize(plugin_config)
InitAllStep(env) ==
    /\ iaPc = "loop"
    /\ iaIdx <= Len(plugins)
    /\ LET p   == plugins[iaIdx]
           cfg == ConfigGet(iaConfig, p.name)
           r   == PluginInitialize(p.name, cfg, env)
       IN /\ initialized' = [initialized EXCEPT ![p.inst] = r.initialized]
          /\ initCalls' = [initCalls EXCEPT ![p.inst] = @ + 1]
          /\ initConfig' = [initConfig EXCEPT ![p.inst] = cfg]
          /\ initRaised' = [initRaised EXCEPT ![p.inst] = r.raised]
          /\ lastInit' = [name |-> p.name, cfg |-> cfg, env |-> env,
                          initialized |-> r.initialized, raised |-> r.raised]
          /\ IF InitAllContinues(r.raised)
             THEN iaPc' = "loop" /\ iaIdx' = iaIdx + 1
             ELSE iaPc' = "raised" /\ iaIdx' = iaIdx
    /\ UNCHANGED <<plugins, nRegistered, lastRegistered, iaConfig, iaRuns, nonRegVars>>

\* the loop is exhausted: initialize_all returns
InitAllReturn ==
    /\ iaPc = "loop"
    /\ iaIdx > Len(plugins)
    /\ iaPc' = "done"
    /\ UNCHANGED <<plugins, initialized, nRegistered, lastRegistered, iaIdx,
                   iaConfig, iaRuns, initCalls, initConfig, initRaised, lastInit,
                   nonRegVars>>

RegNext ==
    \/ \E name \in PluginNames : Register(name)
    \/ \E config \in InitAllConfigs : InitAllBegin(config)
    \/ \E env \in InitEnvs : InitAllStep(env)
    \/ InitAllReturn

SpecRegistry == RegInit /\ [][RegNext]_vars

(***************************************************************************)
(* One call of a parser on an artifact.                                    *)
(***************************************************************************)
SeqsUpTo(S, n) == UNION {[1..k -> S] : k \in 0..n}

\* the input sets take their bounds as parameters: a set is built when a
\* specification draws from it
JUnitSuites(maxCases) == SeqsUpTo(SUBSET JUnitChildren, maxCases)

JUnitDocs(maxSuites, maxCases) ==
    {[root |-> "testsuites", suites |-> ss] :
        ss \in SeqsUpTo(JUnitSuites(maxCases), maxSuites)}
    \cup {[root |-> "testsuite", suites |-> <<su>>] : su \in JUnitSuites(maxCases)}
    \cup {[root |-> "html", suites |-> <<>>]}

CertDocs(maxSuites, maxCases) == SeqsUpTo(SeqsUpTo(RunStatuses, maxCases), maxSuites)

Blanks(k) == [i \in 1..k |-> BlankLine]

\* run outputs: some lines, a run of blank lines, at most one more line
RunOutputs(maxHeadLines, maxBlankLines) ==
    {h \o Blanks(k) \o t : h \in SeqsUpTo(OutputLines, maxHeadLines),
                           k \in 0..maxBlankLines, t \in SeqsUpTo(OutputLines, 1)}

\* FAIL runs: without an output element, or with its text
\* command elements: the return-value attribute ("none" when it is missing)
\* and the number of lines of the stripped stderr text cut to 200 characters
\* (0 without stderr text)
Commands ==
    {[rc |-> "0", stderr |-> 0], [rc |-> "1", stderr |-> 0],
     [rc |-> "2", stderr |-> 3], [rc |-> "none", stderr |-> 0]}

\* an output of n lines with an error word
ErrorLines(n) == [i \in 1..n |-> [text |-> "Error: disk full", len |-> 16]]

FailedRuns(maxHeadLines, maxBlankLines, maxCommands) ==
    {[test_name |-> "t", has_output |-> FALSE, output |-> <<>>, commands |-> <<>>]}
    \cup {[test_name |-> "t", has_output |-> TRUE, output |-> o, commands |-> <<>>] :
            o \in RunOutputs(maxHeadLines, maxBlankLines)}
    \cup {[test_name |-> "t", has_output |-> n > 0, output |-> ErrorLines(n),
           commands |-> cs] : n \in {0, 48}, cs \in SeqsUpTo(Commands, maxCommands)}

ValidationTotals ==
    {NoTotal,
     [tests |-> 10, success |-> 7, failures |-> 2, skipped |-> 1, errors |-> 0],
     [tests |-> 1, success |-> 0, failures |-> 2, skipped |-> 0, errors |-> 0]}

ValidationCases ==
    {[status |-> "FAIL", failure |-> TRUE], [status |-> "FAIL", failure |-> FALSE],
     [status |-> "SKIP", failure |-> FALSE], [status |-> "PASS", failure |-> FALSE]}

AttachmentFiles(maxFileCases) ==
    {[fname |-> f, loads |-> FALSE, total |-> NoTotal, cases |-> <<>>] :
        f \in AttachmentFileNames}
    \cup {[fname |-> f, loads |-> TRUE, total |-> t, cases |-> cs] :
            f \in AttachmentFileNames, t \in ValidationTotals,
            cs \in SeqsUpTo(ValidationCases, maxFileCases)}

AttachmentDirs(maxFiles, maxFileCases) ==
    {[exists |-> FALSE, files |-> <<>>]}
    \cup {[exists |-> TRUE, files |-> fs] :
            fs \in SeqsUpTo(AttachmentFiles(maxFileCases), maxFiles)}

HTMLValues == {0, 2}

HTMLFailRows ==
    {[named |-> TRUE, class |-> "failed"], [named |-> TRUE, class |-> "error"],
     [named |-> FALSE, class |-> "failed"]}

HTMLDocs(maxRows, maxFailRows) ==
    {[hasTable |-> TRUE, table |-> t, hasStats |-> st, stats |-> <<>>, rows |-> r, lines |-> l] :
        t \in SeqsUpTo([label : HTMLTableLabels, value : HTMLValues], maxRows),
        st \in BOOLEAN,
        r \in SeqsUpTo(HTMLFailRows, maxFailRows),
        l \in SeqsUpTo({"FAILED", "ERROR"}, maxFailRows)}
    \cup
    {[hasTable |-> FALSE, table |-> <<>>, hasStats |-> TRUE, stats |-> p, rows |-> r, lines |-> l] :
        p \in SeqsUpTo([label : HTMLStatsWords, value : HTMLValues], maxRows),
        r \in SeqsUpTo(HTMLFailRows, maxFailRows),
        l \in SeqsUpTo({"FAILED", "ERROR"}, maxFailRows)}
    \cup
    {[hasTable |-> FALSE, table |-> <<>>, hasStats |-> FALSE, stats |-> <<>>, rows |-> r, lines |-> l] :
        r \in SeqsUpTo(HTMLFailRows, maxFailRows),
        l \in SeqsUpTo({"FAILED", "ERROR"}, maxFailRows)}

ParseInit ==
    /\ RegistryNew
    /\ SrvIdle
    /\ LogIdle
    /\ HealthIdle
    /\ pDone = FALSE
    /\ pResult = <<>>
    /\ \/ parser = "junit" /\ pInput \in JUnitDocs(MaxSuites, MaxCases)
       \/ parser = "cert" /\ pInput \in CertDocs(MaxSuites, MaxCases)
       \/ parser = "attachments" /\ pInput \in AttachmentDirs(MaxFiles, MaxFileCases)
       \/ parser = "html" /\ pInput \in HTMLDocs(MaxRows, MaxFailRows)
       \/ parser = "cert_failure"
          /\ pInput \in FailedRuns(MaxHeadLines, MaxBlankLines, MaxCommands)

ParseJUnit ==
    /\ parser = "junit" /\ ~pDone
    /\ pResult' = TempestXMLParse(pInput)
    /\ pDone' = TRUE
    /\ UNCHANGED <<parser, pInput, nonParseVars>>

ParseCert ==
    /\ parser = "cert" /\ ~pDone
    /\ pResult' = RHCertXMLParse(pInput)
    /\ pDone' = TRUE
    /\ UNCHANGED <<parser, pInput, nonParseVars>>

ParseAttachments ==
    /\ parser = "attachments" /\ ~pDone
    /\ pResult' = RHCertAttachmentParse(pInput)
    /\ pDone' = TRUE
    /\ UNCHANGED <<parser, pInput, nonParseVars>>

ParseHTML ==
    /\ parser = "html" /\ ~pDone
    /\ pResult' = TempestHTMLParse(pInput)
    /\ pDone' = TRUE
    /\ UNCHANGED <<parser, pInput, nonParseVars>>

\* self._parse_failure(test, test_name, test_path, run, ...) for a FAIL run
ParseCertFailure ==
    /\ parser = "cert_failure" /\ ~pDone
    /\ pResult' = ParseFailure(pInput)
    /\ pDone' = TRUE
    /\ UNCHANGED <<parser, pInput, nonParseVars>>

ParseNext == ParseJUnit \/ ParseCert \/ ParseAttachments \/ ParseHTML \/ ParseCertFailure

SpecParse == ParseInit /\ [][ParseNext]_vars

(***************************************************************************)
(* The analysis server (analysis_service/server.py): startup, the analyze  *)
(* and chat endpoints and their SSE generator event_stream.  Requests are  *)
(* served one after the other.  Durations, the chat message and history    *)
(* and the must-gather correlation of parse_tempest_results are left out.  *)
(***************************************************************************)
DiscoveryOrder == <<"gemini", "claude", "mcp">>

\* auto_discover_plugins: registers, in this order, the plugins of S, the
\* ones whose import succeeds
RECURSIVE DiscoverFrom(_, _, _)
DiscoverFrom(S, k, d) ==
    IF k > Len(DiscoveryOrder) THEN d
    ELSE DiscoverFrom(S, k + 1,
            IF DiscoveryOrder[k] \in S
            THEN RegistryRegister(d, DiscoveryOrder[k], Len(d) + 1)
            ELSE d)

\* the per-plugin configs of startup_event: the API key is the environment
\* variable or '', the server URL is never empty
StartupConfigs ==
    {[api_key |-> "", server_url |-> "http://mcp"],
     [api_key |-> "key", server_url |-> "http://mcp"]}

TestFolders == {"rhoso", "rhcert-results.xml", "nonexistent"}

\* test_folder ends with .xml and contains rhcert
IsRhcertXmlFile(tf) == tf = "rhcert-results.xml"

\* os.path.exists(os.path.join(extract_path, test_folder))
FolderExists(job, tf) == tf = "rhoso" /\ job.folder

IsSkip(item) == item.failure_type = "skip"

IsNotSkip(item) == item.failure_type # "skip"

ParseFailed(status) == [status |-> status, results |-> << >>]

\* parse_tempest_results: the HTTP status and, for 200, the results
ParseTempestResults(job, tf) ==
    IF ~IsRhcertXmlFile(tf) /\ ~FolderExists(job, tf) THEN ParseFailed(404)
    ELSE IF ~IsRhcertXmlFile(tf) /\ job.tempest # "absent"
    THEN IF job.tempest = "malformed" THEN ParseFailed(500)
         ELSE LET x == TempestXMLParse([root |-> "testsuites", suites |-> job.suites])
              IN [status |-> 200,
                  results |-> [total_tests |-> x.total_tests, passed |-> x.passed,
                               failed |-> x.failed, skipped |-> x.skipped,
                               errors |-> x.errors,
                               failures |-> SelectSeq(x.failures, IsNotSkip),
                               skipped_tests |-> SelectSeq(x.failures, IsSkip),
                               source |-> "xml"]]
    ELSE IF job.attachments.exists
    THEN LET a == RHCertAttachmentParse(job.attachments)
         IN [status |-> 200,
             results |-> [total_tests |-> a.total_tests, passed |-> a.passed,
                          failed |-> a.failed, skipped |-> a.skipped,
                          errors |-> a.errors,
                          failures |-> a.failures,
                          skipped_tests |-> a.skipped_tests,
                          source |-> "rhcert-attachments"]]
    ELSE ParseFailed(404)

SummaryKeys == {"total_tests", "passed", "failed", "skipped", "errors"}

\* AnalysisContext(test_failures=results['failures'], test_summary={...})
BuildContext(results) ==
    [test_failures |-> results.failures,
     test_summary |-> [k \in SummaryKeys |-> results[k]],
     built |-> TRUE]

\* an endpoint without the check of plugin.initialized
RejectUninitialized_Never(init) == FALSE

\* `if not plugin.initialized: raise HTTPException(status_code=503, ...)`
RejectUninitialized(init) == ~init

Event(kind, payload) == [kind |-> kind, payload |-> payload]

ErrorText == "[Error: backend failure]"

NoYield == "<nothing>"

\* the result of one resumption of a plugin's stream generator: the new
\* generator state, the chunk it yields (NoYield: none), whether it returns,
\* the network calls made and whether the backend failed
StreamStep(b, y, ret, net, failed) ==
    [bPc |-> b, yield |-> y, returns |-> ret, net |-> net, failed |-> failed]

\* One resumption of _stream_analysis / _stream_chat_response of the Gemini
\* and Claude plugins: the request is sent at the first resumption; Gemini
\* skips a chunk without text; every exception of the backend is caught in
\* the generator, which yields "\n\n[Error: ...]" as a chunk and returns.
PluginStreamStep(name, b, outcome) ==
    CASE b = "start" /\ outcome = "ok" -> StreamStep("open", NoYield, FALSE, 1, FALSE)
      [] b = "start" /\ outcome = "raise" ->
            StreamStep("failed", ErrorText, FALSE, 1, TRUE)
      [] b = "open" /\ outcome = "chunk" -> StreamStep("open", "chunk", FALSE, 0, FALSE)
      [] b = "open" /\ outcome = "empty" ->
            StreamStep("open", IF name = "gemini" THEN NoYield ELSE "", FALSE, 0, FALSE)
      [] b = "open" /\ outcome = "end" -> StreamStep("none", NoYield, TRUE, 0, FALSE)
      [] b = "open" /\ outcome = "raise" -> StreamStep("failed", ErrorText, FALSE, 0, TRUE)
      [] b = "failed" -> StreamStep("none", NoYield, TRUE, 0, FALSE)

\* what the backend can do at a resumption
BackendOutcomes(name, b, n) ==
    CASE b = "start" -> {"ok", "raise"}
      [] b = "open" -> IF n < MaxChunks THEN {"chunk", "empty", "end", "raise"}
                       ELSE {"end", "raise"}
      [] OTHER -> {"end"}

\* the non-streaming plugin call: analyze_failures(context, stream=False) or
\* chat(..., stream=False); the plugin itself refuses when not initialized
PluginComplete(init, outcome) ==
    IF ~init THEN [status |-> 500, net |-> 0]
    ELSE IF outcome = "ok" THEN [status |-> 200, net |-> 1]
    ELSE [status |-> 500, net |-> 1]

\* plugin.analyze_failures(context, stream=True) / plugin.chat(..., stream=True)
\* as event_stream calls it, without await: Gemini and Claude return the
\* async generator or raise RuntimeError when not initialized; MCP's method
\* is a coroutine function, and `async for` over the coroutine is a TypeError.
PluginStreamCall(name, init) ==
    IF name = "mcp" THEN "TypeError"
    ELSE IF ~init THEN "RuntimeError"
    ELSE "generator"

JobLayouts ==
    LET report == [fname |-> "neutron_ipv4-validation_report.json", loads |-> TRUE,
                   total |-> [tests |-> 10, success |-> 7, failures |-> 2,
                              skipped |-> 1, errors |-> 0],
                   cases |-> <<[status |-> "FAIL", failure |-> TRUE]>>]
        dir == [exists |-> TRUE, files |-> <<report>>]
        nodir == [exists |-> FALSE, files |-> <<>>]
    IN {[folder |-> TRUE, tempest |-> "ok",
         suites |-> << <<{"failure"}, {"skipped"}, {}>> >>,
         attachments |-> nodir, cert |-> <<>>],
        [folder |-> TRUE, tempest |-> "malformed", suites |-> <<>>,
         attachments |-> nodir, cert |-> <<>>],
        [folder |-> TRUE, tempest |-> "absent", suites |-> <<>>,
         attachments |-> dir, cert |-> << <<"PASS", "REVIEW", "FAIL">> >>],
        [folder |-> FALSE, tempest |-> "absent", suites |-> <<>>,
         attachments |-> nodir, cert |-> << <<"REVIEW">> >>]}

\* The state after import (auto_discover_plugins) and startup_event.
RegistryStarted ==
    /\ \E S \in SUBSET PluginNames : plugins = DiscoverFrom(S, 1, <<>>)
    /\ initialized \in [Insts -> BOOLEAN]
    /\ \A i \in Insts :
          IF i <= Len(plugins)
          THEN \E cfg \in StartupConfigs, env \in InitEnvs :
                  initialized[i] = PluginInitialize(plugins[i].name, cfg, env).initialized
          ELSE ~initialized[i]
    /\ nRegistered = Len(plugins)
    /\ lastRegistered = [n \in PluginNames |-> RegistryGet(plugins, n)]
    /\ iaPc = "done"
    /\ iaIdx = Len(plugins) + 1
    /\ iaConfig = << >>
    /\ iaRuns = 1
    /\ initCalls = [i \in Insts |-> IF i <= Len(plugins) THEN 1 ELSE 0]
    /\ initConfig = [i \in Insts |-> EmptyConfig]
    /\ initRaised = [i \in Insts |-> FALSE]
    /\ lastInit = NoInit

SrvInit ==
    /\ ParseIdle
    /\ LogIdle
    /\ HealthIdle
    /\ RegistryStarted
    /\ jobDir \in JobLayouts
    /\ cache = << >>
    /\ req = NoReq
    /\ rStatus = 0
    /\ ctx = NoCtx
    /\ events = <<>>
    /\ sPc = "none"
    /\ bPc = "none"
    /\ chunks = 0
    /\ reqNet = 0
    /\ backendFailed = FALSE
    /\ nReq = 0
    /\ conn = "none"

CachePut(c, key, results) ==
    [k \in DOMAIN c \cup {key} |-> IF k = key THEN results ELSE c[k]]

\* a test that finds no key in the cache
CacheHas_Never(c, key) == FALSE

\* cache_key in test_results_cache
CacheHas(c, key) == key \in DOMAIN c

\* the extract_path of a request: the directory of the job or another
\* directory, which holds other results under the same folder name
ExtractPaths == {"extracted/job", "extracted/other"}

OtherDir ==
    [folder |-> TRUE, tempest |-> "ok", suites |-> << <<{"error"}, {}>> >>,
     attachments |-> [exists |-> FALSE, files |-> <<>>], cert |-> <<>>]

DirAt(ep) == IF ep = "extracted/job" THEN jobDir ELSE OtherDir

\* analyze_failures / chat_about_failures up to the return of the response
Request(endpoint, backend, stream, tf, ep, outcome) ==
    /\ sPc \in {"none", "end", "abandoned"}
    /\ nReq < MaxRequests
    /\ nReq' = nReq + 1
    /\ req' = [endpoint |-> endpoint, backend |-> backend, stream |-> stream,
               test_folder |-> tf, extract_path |-> ep]
    /\ events' = <<>>
    /\ chunks' = 0
    /\ backendFailed' = FALSE
    /\ bPc' = "none"
    /\ conn' = "none"
    /\ LET inst == RegistryGet(plugins, backend)
           parsed == ParseTempestResults(DirAt(ep), tf)
       IN IF inst = 0
          THEN /\ rStatus' = 400 /\ sPc' = "none" /\ ctx' = NoCtx /\ reqNet' = 0
               /\ UNCHANGED cache
          ELSE IF RejectUninitialized(initialized[inst])
          THEN /\ rStatus' = 503 /\ sPc' = "none" /\ ctx' = NoCtx /\ reqNet' = 0
               /\ UNCHANGED cache
          ELSE IF ~CacheHas(cache, tf) /\ parsed.status # 200
          THEN /\ rStatus' = parsed.status /\ sPc' = "none" /\ ctx' = NoCtx
               /\ reqNet' = 0
               /\ UNCHANGED cache
          ELSE /\ cache' = IF CacheHas(cache, tf) THEN cache
                           ELSE CachePut(cache, tf, parsed.results)
               /\ ctx' = BuildContext(cache'[tf])
               /\ IF stream
                  THEN rStatus' = 200 /\ sPc' = "call" /\ reqNet' = 0
                  ELSE LET c == PluginComplete(initialized[inst], outcome)
                       IN rStatus' = c.status /\ sPc' = "none" /\ reqNet' = c.net
    /\ UNCHANGED <<jobDir, regVars, nonSrvVars>>

\* event_stream: generator = plugin.analyze_failures(context, stream=True)
\* and the start of `async for chunk in generator`
StreamCall ==
    /\ sPc = "call"
    /\ LET inst == RegistryGet(plugins, req.backend)
           g == PluginStreamCall(req.backend, initialized[inst])
       IN IF g = "generator"
          THEN sPc' = "iter" /\ bPc' = "start"
          ELSE sPc' = "except" /\ bPc' = "none"
    /\ UNCHANGED <<jobDir, cache, req, rStatus, ctx, events, chunks, reqNet,
                   backendFailed, nReq, conn, regVars, nonSrvVars>>

\* event_stream: one resumption of the plugin's generator; a chunk is yielded
\* as `data: {"text": chunk}`
StreamAdvance(outcome) ==
    /\ sPc = "iter"
    /\ outcome \in BackendOutcomes(req.backend, bPc, chunks)
    /\ LET st == PluginStreamStep(req.backend, bPc, outcome)
       IN /\ events' = IF st.yield = NoYield THEN events
                       ELSE Append(events, Event("text", st.yield))
          /\ reqNet' = reqNet + st.net
          /\ backendFailed' = (backendFailed \/ st.failed)
          /\ chunks' = IF outcome \in {"chunk", "empty"} THEN chunks + 1 ELSE chunks
          /\ conn' = IF st.bPc = "open" THEN "open"
                     ELSE IF conn = "open" THEN "closed"
                     ELSE conn
          /\ IF st.returns
             THEN sPc' = "finally" /\ bPc' = "none"
             ELSE sPc' = "iter" /\ bPc' = st.bPc
    /\ UNCHANGED <<jobDir, cache, req, rStatus, ctx, nReq, regVars, nonSrvVars>>

\* an except clause that ends the generator without reaching [DONE]
StreamExcept_NoFinally ==
    /\ sPc = "except"
    /\ events' = Append(events, Event("error", "str(e)"))
    /\ sPc' = "end"
    /\ UNCHANGED <<jobDir, cache, req, rStatus, ctx, bPc, chunks, reqNet,
                   backendFailed, nReq, conn, regVars, nonSrvVars>>

\* event_stream: except Exception as e: yield `data: {"error": str(e)}`
StreamExcept ==
    /\ sPc = "except"
    /\ events' = Append(events, Event("error", "str(e)"))
    /\ sPc' = "finally"
    /\ UNCHANGED <<jobDir, cache, req, rStatus, ctx, bPc, chunks, reqNet,
                   backendFailed, nReq, conn, regVars, nonSrvVars>>

\* event_stream: finally: yield `data: [DONE]`
StreamFinally ==
    /\ sPc = "finally"
    /\ events' = Append(events, Event("done", "[DONE]"))
    /\ sPc' = "end"
    /\ UNCHANGED <<jobDir, cache, req, rStatus, ctx, bPc, chunks, reqNet,
                   backendFailed, nReq, conn, regVars, nonSrvVars>>

\* event_stream is suspended at `yield data: {"text": chunk}`
AtTextYield ==
    /\ sPc = "iter"
    /\ events # <<>>
    /\ events[Len(events)].kind = "text"

\* The consumer stops reading while event_stream is suspended at a yield
\* (the task that iterates it is cancelled, or the generator is dropped or
\* closed): event_stream has no handler that closes the plugin's generator,
\* which stays suspended with its backend stream as it is.
AbandonAtYield ==
    /\ AtTextYield
    /\ sPc' = "abandoned"
    /\ UNCHANGED <<jobDir, cache, req, rStatus, ctx, events, bPc, chunks, reqNet,
                   backendFailed, nReq, conn, regVars, nonSrvVars>>

\* The task that iterates event_stream is cancelled while the plugin's
\* generator awaits the backend: CancelledError passes the `except
\* Exception` clauses and unwinds the generator and its stream.
AbandonInNext ==
    /\ sPc = "iter"
    /\ bPc = "open"
    /\ sPc' = "abandoned"
    /\ bPc' = "none"
    /\ conn' = "closed"
    /\ UNCHANGED <<jobDir, cache, req, rStatus, ctx, events, chunks, reqNet,
                   backendFailed, nReq, regVars, nonSrvVars>>

\* The garbage collector finalizes the abandoned generators: the event
\* loop's hook closes the plugin's generator.  When, and whether, this
\* happens is up to the interpreter.
FinalizeGenerators ==
    /\ sPc = "abandoned"
    /\ bPc # "none"
    /\ bPc' = "none"
    /\ conn' = IF conn = "open" THEN "closed" ELSE conn
    /\ UNCHANGED <<jobDir, cache, req, rStatus, ctx, events, sPc, chunks, reqNet,
                   backendFailed, nReq, regVars, nonSrvVars>>

SrvNext ==
    \/ \E endpoint \in {"analyze", "chat"}, backend \in PluginNames \cup {"openai"},
          stream \in BOOLEAN, tf \in TestFolders, ep \in ExtractPaths,
          outcome \in {"ok", "raise"} :
          Request(endpoint, backend, stream, tf, ep, outcome)
    \/ StreamCall
    \/ \E outcome \in {"ok", "raise", "chunk", "empty", "end"} :
          StreamAdvance(outcome)
    \/ StreamExcept
    \/ StreamFinally
    \/ AbandonAtYield
    \/ AbandonInNext
    \/ FinalizeGenerators

SpecServer == SrvInit /\ [][SrvNext]_vars

(***************************************************************************)
(* Calls of find_related_logs on one must-gather tree.  The tree is the    *)
(* list of its files in os.walk order.                                     *)
(***************************************************************************)
LogFiles ==
    {[path |-> "volume.nova.log", parts |-> <<{"volume"}, {"nova"}, {"log"}>>,
      small |-> TRUE, lines |-> <<{"volumes", "errors"}, {"nova"}>>],
     [path |-> "nova-volume.log", parts |-> <<{"nova", "volume"}, {"log"}>>,
      small |-> TRUE, lines |-> <<{"timeout", "error"}, {"nova", "fail"}>>],
     [path |-> "test.txt", parts |-> <<{"test"}, {"txt"}>>,
      small |-> FALSE, lines |-> <<{"test", "fail"}>>],
     [path |-> "test.out", parts |-> <<{"test"}, {"out"}>>,
      small |-> TRUE, lines |-> <<{"done"}>>],
     [path |-> "nova.json", parts |-> <<{"nova"}, {"json"}>>,
      small |-> TRUE, lines |-> <<{"nova"}>>],
     [path |-> "api.log", parts |-> <<{"api"}, {"log"}>>,
      small |-> TRUE, lines |-> <<{"nova", "error"}>>]}

\* the walks of the trees of at most MaxLogFiles files
LogTrees ==
    {t \in SeqsUpTo(LogFiles, MaxLogFiles) :
        \A i, j \in 1..Len(t) : t[i] = t[j] => i = j}

TestNames == {<<>>, <<"nova">>, <<"test", "volume">>, <<"test", "api">>,
              <<"novaclient">>}

ErrorMessages ==
    {<<>>, <<"nova", "timeout">>, <<"volume", "not", "found">>,
     <<"failure", "uuid-1">>}

LogInit ==
    /\ RegistryNew
    /\ ParseIdle
    /\ SrvIdle
    /\ HealthIdle
    /\ \E ex \in BOOLEAN, t \in LogTrees, tn \in TestNames, em \in ErrorMessages,
          mr \in {1, 5} :
          /\ ~ex => t = <<>>
          /\ lgInput = [exists |-> ex, files |-> t, test_name |-> tn,
                        error_message |-> em, max_results |-> mr]
    /\ lgOrder = <<>>
    /\ lgResult = <<>>
    /\ lgCalls = 0

\* mg_parser.find_related_logs(mustgather_path, test_name, error_message)
FindRelated(keywords) ==
    /\ lgCalls < MaxCalls
    /\ keywords \in ExtractKeywords(lgInput.test_name, lgInput.error_message)
    /\ lgOrder' = IF lgInput.exists THEN keywords ELSE <<>>
    /\ lgResult' = FindRelatedLogs(lgInput, keywords)
    /\ lgCalls' = lgCalls + 1
    /\ UNCHANGED <<lgInput, nonLogVars>>

LogNext ==
    \E keywords \in ExtractKeywords(lgInput.test_name, lgInput.error_message) :
        FindRelated(keywords)

SpecLogs == LogInit /\ [][LogNext]_vars

(***************************************************************************)
(* health_check of the three plugins, called on the plugins as startup     *)
(* left them.  A call on an initialized plugin sends one request and waits *)
(* for the backend; the calls on different plugins run concurrently.       *)
(***************************************************************************)
\* aiohttp.ClientTimeout(total=5) in MCPPlugin.health_check; the Gemini and
\* Claude health checks pass no timeout to their clients
HasTimeout(name) == name = "mcp"

\* what the backend can answer
BackendAnswers == {"healthy", "unhealthy", "error"}

\* the value returned for an answer: bool(response.text), bool(response.content),
\* response.status == 200; an exception gives False
HealthResult(answer) == answer = "healthy"

HealthInit ==
    /\ RegistryStarted
    /\ ParseIdle
    /\ SrvIdle
    /\ LogIdle
    /\ HealthIdle

\* await plugin.health_check() up to the request, or to the return when the
\* plugin is not initialized
HealthCheckCall(name) ==
    /\ RegistryGet(plugins, name) # 0
    /\ hcPc[name] \in {"idle", "returned"}
    /\ hcCalls[name] < MaxHealthChecks
    /\ hcCalls' = [hcCalls EXCEPT ![name] = @ + 1]
    /\ IF ~initialized[RegistryGet(plugins, name)]
       THEN /\ hcPc' = [hcPc EXCEPT ![name] = "returned"]
            /\ hcResult' = [hcResult EXCEPT
                               ![name] = [value |-> FALSE, after |-> "not initialized"]]
       ELSE /\ hcPc' = [hcPc EXCEPT ![name] = "waiting"]
            /\ UNCHANGED hcResult
    /\ UNCHANGED nonHealthVars

\* the backend answers, or the client raises (connection refused, error status)
HealthCheckAnswer(name, answer) ==
    /\ hcPc[name] = "waiting"
    /\ hcPc' = [hcPc EXCEPT ![name] = "returned"]
    /\ hcResult' = [hcResult EXCEPT
                       ![name] = [value |-> HealthResult(answer), after |-> "answer"]]
    /\ UNCHANGED <<hcCalls, nonHealthVars>>

\* the timeout of the request expires: the exception is caught, False
HealthCheckTimeout(name) ==
    /\ hcPc[name] = "waiting"
    /\ HasTimeout(name)
    /\ hcPc' = [hcPc EXCEPT ![name] = "returned"]
    /\ hcResult' = [hcResult EXCEPT ![name] = [value |-> FALSE, after |-> "timeout"]]
    /\ UNCHANGED <<hcCalls, nonHealthVars>>

HealthNext ==
    \E name \in PluginNames :
        \/ HealthCheckCall(name)
        \/ \E answer \in BackendAnswers : HealthCheckAnswer(name, answer)
        \/ HealthCheckTimeout(name)

\* A timeout that is set expires; nothing makes a backend answer.
SpecHealth ==
    /\ HealthInit
    /\ [][HealthNext]_vars
    /\ \A name \in PluginNames : WF_vars(HealthCheckTimeout(name))

(***************************************************************************)
(* chat of the three plugins: the conversation built from the history and  *)
(* the new message.  A history entry is a dict with role and content; a    *)
(* turn of the conversation is given by its role and its text.             *)
(***************************************************************************)
ChatBackends == {"gemini_chat", "claude_chat", "mcp_chat"}

Turn(role, content) == [role |-> role, content |-> content]

\* a conversion that sends every entry as a user turn
GeminiRole_AllUser(role) == "user"

\* GeminiPlugin._setup_chat_session: 'user' stays, 'assistant' becomes 'model'
GeminiRole(role) == IF role = "assistant" THEN "model" ELSE role

\* _setup_chat_session: the loop over history; other roles are skipped
RECURSIVE GeminiHistoryFrom(_, _)
GeminiHistoryFrom(history, k) ==
    IF k > Len(history) THEN <<>>
    ELSE IF history[k].role \in {"user", "assistant"}
    THEN <<Turn(GeminiRole(history[k].role), history[k].content)>>
         \o GeminiHistoryFrom(history, k + 1)
    ELSE GeminiHistoryFrom(history, k + 1)

\* _setup_chat_session and _stream_chat_response / _complete_chat_response:
\* the contents sent to the model
GeminiChatContents(history, message) ==
    <<Turn("user", "<system prompt>"),
      Turn("model", "I understand. I will analyze test failures based on this context.")>>
    \o GeminiHistoryFrom(history, 1)
    \o <<Turn("user", message)>>

\* ClaudePlugin.chat: the loop over history; other roles are skipped
RECURSIVE ClaudeHistoryFrom(_, _)
ClaudeHistoryFrom(history, k) ==
    IF k > Len(history) THEN <<>>
    ELSE IF history[k].role \in {"user", "assistant"}
    THEN <<Turn(history[k].role, history[k].content)>> \o ClaudeHistoryFrom(history, k + 1)
    ELSE ClaudeHistoryFrom(history, k + 1)

\* ClaudePlugin.chat: the messages sent, the system prompt goes separately
ClaudeChatMessages(history, message) ==
    ClaudeHistoryFrom(history, 1) \o <<Turn("user", message)>>

\* MCPPlugin.chat: the payload carries the history as it is and the message
MCPChatPayload(history, message) ==
    [action |-> "chat", message |-> message, history |-> history]

ChatRoles == {"user", "assistant", "system"}

ChatHistories == SeqsUpTo([role : ChatRoles, content : {"q", "a"}], MaxHistory)

ChatInit ==
    /\ RegistryNew
    /\ SrvIdle
    /\ LogIdle
    /\ HealthIdle
    /\ pDone = FALSE
    /\ pResult = <<>>
    /\ parser \in ChatBackends
    /\ \E h \in ChatHistories : pInput = [history |-> h, message |-> "m"]

GeminiChat ==
    /\ parser = "gemini_chat" /\ ~pDone
    /\ pResult' = GeminiChatContents(pInput.history, pInput.message)
    /\ pDone' = TRUE
    /\ UNCHANGED <<parser, pInput, nonParseVars>>

ClaudeChat ==
    /\ parser = "claude_chat" /\ ~pDone
    /\ pResult' = ClaudeChatMessages(pInput.history, pInput.message)
    /\ pDone' = TRUE
    /\ UNCHANGED <<parser, pInput, nonParseVars>>

MCPChat ==
    /\ parser = "mcp_chat" /\ ~pDone
    /\ pResult' = MCPChatPayload(pInput.history, pInput.message)
    /\ pDone' = TRUE
    /\ UNCHANGED <<parser, pInput, nonParseVars>>

ChatNext == GeminiChat \/ ClaudeChat \/ MCPChat

SpecChat == ChatInit /\ [][ChatNext]_vars

(***************************************************************************)
(* get_file_size_human (app/utils/security.py and server.py, the same       *)
(* body).  A size is given by its six digits to the base 1024, lowest      *)
(* first, so that size = d[1] + d[2]*1024 + ... + d[6]*1024^5; after k      *)
(* divisions by 1024.0 the float holds size / 1024^k exactly.              *)
(***************************************************************************)
Units == <<"B", "KB", "MB", "GB", "TB", "PB">>

\* a loop test that lets 1024.0 pass
SizeBelow1024_Inclusive(size, k) ==
    \/ \A j \in (k + 2)..Len(size) : size[j] = 0
    \/ /\ size[k + 2] = 1
       /\ \A j \in 1..Len(size) : j # k + 2 => size[j] = 0

\* `size < 1024.0` after k divisions
SizeBelow1024(size, k) == \A j \in (k + 2)..Len(size) : size[j] = 0

\* the part of size / 1024^k in front of the point
SizeWhole(size, k) ==
    size[k + 1] + (IF k + 2 <= Len(size) THEN 1024 * size[k + 2] ELSE 0)

\* the first twenty binary places of size / 1024^k after the point
SizeFraction(size, k) ==
    (IF k >= 1 THEN 1024 * size[k] ELSE 0) + (IF k >= 2 THEN size[k - 1] ELSE 0)

\* the places after these are not all zero
SizeSticky(size, k) == \E j \in 1..(k - 2) : size[j] # 0

\* f"{size:.2f} {unit}": the value in hundredths, rounded to nearest from the
\* exact binary value, a tie to the even neighbour
FormatSize(size, k) ==
    LET scaled == 100 * SizeFraction(size, k)
        q == scaled \div 1048576
        r == scaled % 1048576
        up == \/ r > 524288
              \/ r = 524288 /\ (SizeSticky(size, k) \/ q % 2 = 1)
        hundredths == 100 * SizeWhole(size, k) + q + (IF up THEN 1 ELSE 0)
    IN [whole |-> hundredths \div 100, decimals |-> hundredths % 100,
        unit |-> Units[k + 1]]

\* the loop over ['B', 'KB', 'MB', 'GB', 'TB'] and the final return
RECURSIVE GetFileSizeHumanFrom(_, _)
GetFileSizeHumanFrom(size, k) ==
    IF k = 5 THEN FormatSize(size, 5)
    ELSE IF SizeBelow1024(size, k) THEN FormatSize(size, k)
    ELSE GetFileSizeHumanFrom(size, k + 1)

get_file_size_human(size) == GetFileSizeHumanFrom(size, 0)

SizeDigits == {0, 1, 2, 128, 512, 1023}

FileSizes ==
    {<<d1, d2, d3, d4, d5, d6>> : d1 \in SizeDigits, d2 \in SizeDigits, d3 \in SizeDigits,
                                   d4 \in SizeDigits, d5 \in SizeDigits, d6 \in {0, 1, MaxPB}}

SizeInit ==
    /\ RegistryNew
    /\ SrvIdle
    /\ LogIdle
    /\ HealthIdle
    /\ pDone = FALSE
    /\ pResult = <<>>
    /\ parser = "get_file_size_human"
    /\ pInput \in FileSizes

GetFileSizeHuman ==
    /\ parser = "get_file_size_human" /\ ~pDone
    /\ pResult' = get_file_size_human(pInput)
    /\ pDone' = TRUE
    /\ UNCHANGED <<parser, pInput, nonParseVars>>

SpecSize == SizeInit /\ [][GetFileSizeHuman]_vars

(***************************************************************************)
(* MCPPlugin._stream_analysis and _stream_chat_response (the same loop):   *)
(* the decoder of the inbound event stream.  A line is given after         *)
(* decode('utf-8').strip(): whether it starts with 'data: ' and what        *)
(* follows the prefix.  json says what json.loads makes of the payload      *)
(* ("none": JSONDecodeError), has_text what `'text' in chunk` gives for a   *)
(* dict (a key) or a str (a substring).                                    *)
(***************************************************************************)
SSELine(prefix, payload, json, has_text) ==
    [prefix |-> prefix, payload |-> payload, json |-> json, has_text |-> has_text]

SSELines ==
    {SSELine(TRUE, "[DONE]", "none", FALSE),
     SSELine(TRUE, "{\"text\": \"a\"}", "dict", TRUE),
     SSELine(TRUE, "{\"status\": \"x\"}", "dict", FALSE),
     SSELine(TRUE, "42", "int", FALSE),
     SSELine(TRUE, "\"context\"", "str", TRUE),
     SSELine(TRUE, "\"ok\"", "str", FALSE),
     SSELine(TRUE, "plain words", "none", FALSE),
     SSELine(FALSE, ": ping", "none", FALSE),
     SSELine(FALSE, "[DONE]", "none", FALSE)}

\* chunk['text'] of the dict payload of the model
TextOf(line) == "a"

\* the body of `async for line in response.content` for one line: what it
\* yields and how it goes on ("next", "break", or "raise" for an exception
\* that leaves the loop)
DecodeLine(line) ==
    IF ~line.prefix THEN [yield |-> <<>>, go |-> "next"]
    ELSE IF line.payload = "[DONE]" THEN [yield |-> <<>>, go |-> "break"]
    ELSE IF line.json = "none"
    THEN [yield |-> <<[kind |-> "raw", text |-> line.payload]>>, go |-> "next"]
    ELSE IF line.json = "dict"
    THEN IF line.has_text
         THEN [yield |-> <<[kind |-> "text", text |-> TextOf(line)]>>, go |-> "next"]
         ELSE [yield |-> <<>>, go |-> "next"]
    ELSE IF line.json = "str"
    THEN IF line.has_text
         THEN [yield |-> <<>>, go |-> "raise"]   \* chunk['text'] on a str: TypeError
         ELSE [yield |-> <<>>, go |-> "next"]
    ELSE [yield |-> <<>>, go |-> "raise"]        \* 'text' in 42: TypeError

\* except Exception: yield f"\n\n[Error: {str(e)}]"
ErrorChunk == [kind |-> "error", text |-> "\n\n[Error: ...]"]

SSEStreams ==
    {[status |-> 200, lines |-> ls] : ls \in SeqsUpTo(SSELines, MaxLines)}
    \cup {[status |-> 500, lines |-> <<>>]}

SSEInit ==
    /\ RegistryNew
    /\ SrvIdle
    /\ LogIdle
    /\ HealthIdle
    /\ parser = "mcp_stream"
    /\ pInput \in SSEStreams
    /\ pResult = [pc |-> "post", pos |-> 0, yielded |-> <<>>]
    /\ pDone = FALSE

\* the response arrives: any status but 200 is yielded as an error text and
\* the generator returns
SSEResponse ==
    /\ parser = "mcp_stream" /\ pResult.pc = "post"
    /\ IF pInput.status # 200
       THEN /\ pResult' = [pc |-> "returned", pos |-> 0,
                           yielded |-> <<[kind |-> "status", text |-> "[Error: MCP server returned ...]"]>>]
            /\ pDone' = TRUE
       ELSE /\ pResult' = [pResult EXCEPT !.pc = "reading", !.pos = 1]
            /\ pDone' = FALSE
    /\ UNCHANGED <<parser, pInput, nonParseVars>>

\* one turn of the loop on the next line
SSENextLine ==
    /\ parser = "mcp_stream" /\ pResult.pc = "reading"
    /\ pResult.pos <= Len(pInput.lines)
    /\ LET step == DecodeLine(pInput.lines[pResult.pos])
       IN IF step.go = "next"
          THEN /\ pResult' = [pResult EXCEPT !.pos = @ + 1, !.yielded = @ \o step.yield]
               /\ pDone' = FALSE
          ELSE IF step.go = "break"
          THEN /\ pResult' = [pResult EXCEPT !.pc = "done"]
               /\ pDone' = TRUE
          ELSE /\ pResult' = [pResult EXCEPT !.pc = "failed",
                                             !.yielded = Append(@, ErrorChunk)]
               /\ pDone' = TRUE
    /\ UNCHANGED <<parser, pInput, nonParseVars>>

\* response.content is exhausted
SSEEndOfInput ==
    /\ parser = "mcp_stream" /\ pResult.pc = "reading"
    /\ pResult.pos > Len(pInput.lines)
    /\ pResult' = [pResult EXCEPT !.pc = "eof"]
    /\ pDone' = TRUE
    /\ UNCHANGED <<parser, pInput, nonParseVars>>

SSENext == SSEResponse \/ SSENextLine \/ SSEEndOfInput

SpecSSE == SSEInit /\ [][SSENext]_vars

(***************************************************************************)
(* _complete_analysis of the three plugins: the AnalysisResult built from  *)
(* the backend's answer.  Confidence values are in hundredths.  An answer  *)
(* is the text of the model (Gemini, Claude) or the JSON object of the MCP *)
(* server, given by its summary and its `confidence` member (NoConfidence  *)
(* when the object has none).                                              *)
(***************************************************************************)
CompleteBackends == {"gemini_complete", "claude_complete", "mcp_complete"}

BackendAnswerTexts == {"", "Summary: all volume tests time out", "no sections"}

NoConfidence == -1

BackendAnswerConfidences == {NoConfidence, 20, 75, 150}

CompleteAnswers ==
    [outcome : {"answer", "exception"}, text : BackendAnswerTexts,
     confidence : BackendAnswerConfidences]

\* GeminiPlugin._complete_analysis: confidence=0.85
GeminiCompleteAnalysis(answer) ==
    IF answer.outcome = "exception" THEN [raised |-> TRUE, confidence |-> 0]
    ELSE [raised |-> FALSE, confidence |-> 85]

\* ClaudePlugin._complete_analysis: confidence=0.90
ClaudeCompleteAnalysis(answer) ==
    IF answer.outcome = "exception" THEN [raised |-> TRUE, confidence |-> 0]
    ELSE [raised |-> FALSE, confidence |-> 90]

\* MCPPlugin._complete_analysis: confidence=result_data.get('confidence', 0.75)
MCPCompleteAnalysis(answer) ==
    IF answer.outcome = "exception" THEN [raised |-> TRUE, confidence |-> 0]
    ELSE [raised |-> FALSE,
          confidence |-> IF answer.confidence = NoConfidence THEN 75 ELSE answer.confidence]

CompleteInit ==
    /\ RegistryNew
    /\ SrvIdle
    /\ LogIdle
    /\ HealthIdle
    /\ parser \in CompleteBackends
    /\ pInput \in CompleteAnswers
    /\ pResult = <<>>
    /\ pDone = FALSE

GeminiComplete ==
    /\ parser = "gemini_complete" /\ ~pDone
    /\ pResult' = GeminiCompleteAnalysis(pInput)
    /\ pDone' = TRUE
    /\ UNCHANGED <<parser, pInput, nonParseVars>>

ClaudeComplete ==
    /\ parser = "claude_complete" /\ ~pDone
    /\ pResult' = ClaudeCompleteAnalysis(pInput)
    /\ pDone' = TRUE
    /\ UNCHANGED <<parser, pInput, nonParseVars>>

MCPComplete ==
    /\ parser = "mcp_complete" /\ ~pDone
    /\ pResult' = MCPCompleteAnalysis(pInput)
    /\ pDone' = TRUE
    /\ UNCHANGED <<parser, pInput, nonParseVars>>

CompleteNext == GeminiComplete \/ ClaudeComplete \/ MCPComplete

SpecComplete == CompleteInit /\ [][CompleteNext]_vars

(***************************************************************************)
(* app/utils/security.py: validate_path_traversal and check_file_access.   *)
(* A path is the list of its components under the root; a requested        *)
(* file_path is relative or absolute.  The file system holds the extraction*)
(* folder with the directories of two jobs and a directory whose name      *)
(* begins with the id of the first job.                                    *)
(***************************************************************************)
ExtractFolder == <<"ext">>

Directories ==
    {<<>>, <<"ext">>, <<"ext", "j1">>, <<"ext", "j1", "sub">>, <<"ext", "j1-backup">>,
     <<"ext", "k2">>}

Files ==
    {<<"ext", "j1", "a.txt">>, <<"ext", "j1", "sub", "a.txt">>,
     <<"ext", "j1-backup", "secret.txt">>, <<"ext", "k2", "secret.txt">>}

\* os.path.normpath on the components of an absolute path
RECURSIVE NormFrom(_, _, _)
NormFrom(parts, k, acc) ==
    IF k > Len(parts) THEN acc
    ELSE IF parts[k] = ".."
    THEN NormFrom(parts, k + 1,
                  IF acc = <<>> THEN <<>> ELSE SubSeq(acc, 1, Len(acc) - 1))
    ELSE NormFrom(parts, k + 1, Append(acc, parts[k]))

\* os.path.abspath of an absolute path
AbsPath(parts) == NormFrom(parts, 1, <<>>)

\* a.startswith(b) for two names
NameStartsWith(a, b) == a = b \/ (a = "j1-backup" /\ b = "j1")

\* abs_full_path.startswith(abs_base_path) on the path strings: the base may
\* end in the middle of a component of the full path
StrStartsWith(full, base) ==
    IF base = <<>> THEN TRUE
    ELSE /\ Len(full) >= Len(base)
         /\ \A i \in 1..(Len(base) - 1) : full[i] = base[i]
         /\ NameStartsWith(full[Len(base)], base[Len(base)])

validate_path_traversal(full_path, base_path) ==
    StrStartsWith(AbsPath(full_path), AbsPath(base_path))

\* os.path.exists: the system walks the components, `..` leads to the parent
\* of a directory
RECURSIVE ExistsFrom(_, _, _)
ExistsFrom(parts, k, at) ==
    IF k > Len(parts) THEN TRUE
    ELSE IF at \notin Directories THEN FALSE
    ELSE IF parts[k] = ".."
    THEN ExistsFrom(parts, k + 1, IF at = <<>> THEN <<>> ELSE SubSeq(at, 1, Len(at) - 1))
    ELSE /\ Append(at, parts[k]) \in Directories \cup Files
         /\ ExistsFrom(parts, k + 1, Append(at, parts[k]))

PathExists(parts) == ExistsFrom(parts, 1, <<>>)

\* os.path.join(job_extract_path, file_path): an absolute second path wins
JoinPath(base, file_path) ==
    IF file_path.absolute THEN file_path.parts ELSE base \o file_path.parts

NoPath == <<"None">>

check_file_access(job_id, file_path) ==
    LET job_extract_path == Append(ExtractFolder, job_id)
        full_path == IF file_path.parts = <<>> /\ ~file_path.absolute
                     THEN job_extract_path
                     ELSE JoinPath(job_extract_path, file_path)
    IN IF ~PathExists(job_extract_path)
       THEN [is_safe |-> FALSE, full_path |-> NoPath,
             error |-> "Extraction folder not found"]
       ELSE IF ~validate_path_traversal(full_path, job_extract_path)
       THEN [is_safe |-> FALSE, full_path |-> NoPath,
             error |-> "Access denied - path traversal attempt detected"]
       ELSE IF ~PathExists(full_path)
       THEN [is_safe |-> FALSE, full_path |-> NoPath,
             error |-> "File or directory not found"]
       ELSE [is_safe |-> TRUE, full_path |-> full_path, error |-> "None"]

JobIds == {"j1", "k2", "zz"}

PathNames == {"..", "a.txt", "sub", "j1-backup", "secret.txt", "ext"}

FilePaths == [absolute : BOOLEAN, parts : SeqsUpTo(PathNames, MaxPathLen)]

AccessInit ==
    /\ RegistryNew
    /\ SrvIdle
    /\ LogIdle
    /\ HealthIdle
    /\ parser = "check_file_access"
    /\ pInput \in [job_id : JobIds, file_path : FilePaths]
    /\ pResult = <<>>
    /\ pDone = FALSE

\* is_safe, full_path, error = check_file_access(job_id, file_path)
CheckFileAccess ==
    /\ parser = "check_file_access" /\ ~pDone
    /\ pResult' = check_file_access(pInput.job_id, pInput.file_path)
    /\ pDone' = TRUE
    /\ UNCHANGED <<parser, pInput, nonParseVars>>

SpecAccess == AccessInit /\ [][CheckFileAccess]_vars

(***************************************************************************)
(* An extraction job: ExtractionService._extract_archive in its background *)
(* thread, with IndexingService.index_extraction called at its end.  The   *)
(* job row has status, progress and message; the upload created it with    *)
(* status 'uploading'.  The input says what the archive and the database   *)
(* do: the extension of the file, the step of the extraction that raises   *)
(* (if any), whether the extraction directory is still there, the number   *)
(* of full batches the walk commits and the commit that raises (0: none;   *)
(* batches + 1: the final one).                                            *)
(***************************************************************************)
Archives ==
    {a \in [ext : {"zip", "tar", "txt"}, raises : {"none", "open", "extractall"},
            path_exists : BOOLEAN, batches : 0..MaxBatches, fail_at : 0..(MaxBatches + 1)] :
        a.fail_at <= a.batches + 1}

JobRow(pc, status, progress, batch) ==
    [pc |-> pc, status |-> status, progress |-> progress, batch |-> batch]

JobInit ==
    /\ RegistryNew
    /\ SrvIdle
    /\ LogIdle
    /\ HealthIdle
    /\ parser = "extract_job"
    /\ pInput \in Archives
    /\ pResult = JobRow("start", "uploading", 0, 0)
    /\ pDone = FALSE

JobStep(row, ended) ==
    /\ parser = "extract_job" /\ ~pDone
    /\ pResult' = row
    /\ pDone' = ended
    /\ UNCHANGED <<parser, pInput, nonParseVars>>

\* except Exception in _extract_archive: status='error', progress=0
JobError == JobRow("finished", "error", 0, 0)

\* _update_job(status='extracting', progress=0) and the choice of the format
JobBegin ==
    /\ pResult.pc = "start"
    /\ JobStep(JobRow("format", "extracting", 0, 0), FALSE)

\* an unsupported format ends the thread; _extract_zip and _extract_tar begin
\* with _update_job(status='extracting', progress=10)
JobFormat ==
    /\ pResult.pc = "format"
    /\ IF pInput.ext = "txt"
       THEN JobStep(JobError, TRUE)
       ELSE JobStep(JobRow("open", "extracting", 10, 0), FALSE)

\* zipfile.ZipFile / tarfile.open and the member list, then progress=50
JobOpenArchive ==
    /\ pResult.pc = "open"
    /\ IF pInput.raises = "open"
       THEN JobStep(JobError, TRUE)
       ELSE JobStep(JobRow("extractall", "extracting", 50, 0), FALSE)

\* extractall, then progress=90
JobExtractAll ==
    /\ pResult.pc = "extractall"
    /\ IF pInput.raises = "extractall"
       THEN JobStep(JobError, TRUE)
       ELSE JobStep(JobRow("extracted", "extracting", 90, 0), FALSE)

\* _update_job(status='indexing', progress=95) and the call of index_extraction
JobStartIndexing ==
    /\ pResult.pc = "extracted"
    /\ JobStep(JobRow("index", "indexing", 95, 0), FALSE)

\* index_extraction: `if not os.path.exists(extract_path): return {'error': ..}`;
\* _extract_archive does not look at the value returned
JobIndexPath ==
    /\ pResult.pc = "index"
    /\ IF pInput.path_exists
       THEN JobStep([pResult EXCEPT !.pc = "walk", !.batch = 1], FALSE)
       ELSE JobStep([pResult EXCEPT !.pc = "finished"], TRUE)

\* a batch of the walk: bulk_save_objects and commit; an exception is caught
\* in index_extraction: rollback, stats['error'], return stats
JobIndexBatch ==
    /\ pResult.pc = "walk"
    /\ pResult.batch <= pInput.batches
    /\ IF pInput.fail_at = pResult.batch
       THEN JobStep([pResult EXCEPT !.pc = "finished"], TRUE)
       ELSE JobStep([pResult EXCEPT !.batch = @ + 1], FALSE)

\* the rest of the entries, the job row set to 'completed' with progress 100,
\* and the final commit
JobIndexFinish ==
    /\ pResult.pc = "walk"
    /\ pResult.batch > pInput.batches
    /\ IF pInput.fail_at = pResult.batch
       THEN JobStep([pResult EXCEPT !.pc = "finished"], TRUE)
       ELSE JobStep(JobRow("finished", "completed", 100, pResult.batch), TRUE)

JobNext ==
    \/ JobBegin
    \/ JobFormat
    \/ JobOpenArchive
    \/ JobExtractAll
    \/ JobStartIndexing
    \/ JobIndexPath
    \/ JobIndexBatch
    \/ JobIndexFinish

\* the background thread keeps running until it returns
SpecJob == JobInit /\ [][JobNext]_vars /\ WF_vars(JobNext)

(***************************************************************************)
(* app/utils/pagination.py: get_pagination_params and paginate.  A query   *)
(* argument is an integer or is missing or not a number (given = FALSE);   *)
(* the list is the list of the positions 1..n of its items.                *)
(***************************************************************************)
DEFAULT_PAGE_SIZE == 50

MAX_PAGE_SIZE == 100

\* int(request.args.get(name, default)) with ValueError giving the default
ArgOr(arg, default) == IF arg.given THEN arg.value ELSE default

get_pagination_params(args) ==
    [page |-> ArgOr(args.page, 1), per_page |-> ArgOr(args.per_page, DEFAULT_PAGE_SIZE)]

MinOf(a, b) == IF a < b THEN a ELSE b

MaxOf(a, b) == IF a > b THEN a ELSE b

\* math.ceil(a / b) for a >= 0 and b > 0
CeilDiv(a, b) == (a + b - 1) \div b

\* the bound of a slice: a negative one counts from the end, and both are
\* kept within 0..n
SliceBound(i, n) == IF i < 0 THEN MaxOf(0, n + i) ELSE MinOf(i, n)

\* items[start:end]
Slice(items, start, end) ==
    LET lo == SliceBound(start, Len(items))
        hi == SliceBound(end, Len(items))
    IN IF lo < hi THEN SubSeq(items, lo + 1, hi) ELSE <<>>

paginate(items, page0, per_page0) ==
    LET per_page == MinOf(per_page0, MAX_PAGE_SIZE)
        total_items == Len(items)
        total_pages == IF per_page > 0 THEN CeilDiv(total_items, per_page) ELSE 0
        page == MaxOf(1, MinOf(page0, IF total_pages > 0 THEN total_pages ELSE 1))
        start_idx == (page - 1) * per_page
        end_idx == start_idx + per_page
        page_items == Slice(items, start_idx, end_idx)
    IN [items |-> page_items, page |-> page, per_page |-> per_page,
        total_items |-> total_items, total_pages |-> total_pages,
        has_next |-> page < total_pages, has_prev |-> page > 1,
        start_index |-> IF page_items # <<>> THEN start_idx + 1 ELSE 0,
        end_index |-> start_idx + Len(page_items)]

ItemLists == {[i \in 1..n |-> i] : n \in {0, 1, 3, 101, 250}}

QueryArgs ==
    [page : {[given |-> FALSE, value |-> 0]}
            \cup {[given |-> TRUE, value |-> v] : v \in (-1)..MaxPage},
     per_page : {[given |-> FALSE, value |-> 0]}
                \cup {[given |-> TRUE, value |-> v] :
                        v \in {-2, -1, 0, 1, 2, 50, 100, 101, 200}}]

PageInit ==
    /\ RegistryNew
    /\ SrvIdle
    /\ LogIdle
    /\ HealthIdle
    /\ parser = "paginate"
    /\ pInput \in [items : ItemLists, args : QueryArgs]
    /\ pResult = <<>>
    /\ pDone = FALSE

\* browse: page, per_page, .. = get_pagination_params(request) and
\* paginate(sorted_items, page, per_page)
Paginate ==
    /\ parser = "paginate" /\ ~pDone
    /\ LET params == get_pagination_params(pInput.args)
       IN pResult' = paginate(pInput.items, params.page, params.per_page)
    /\ pDone' = TRUE
    /\ UNCHANGED <<parser, pInput, nonParseVars>>

SpecPage == PageInit /\ [][Paginate]_vars

(***************************************************************************)
(* Properties of the registry                                              *)
(***************************************************************************)
CountName(seq, n) == Cardinality({i \in 1..Len(seq) : seq[i] = n})

\* C4: after any sequence of register calls, get(name) is the plugin most
\* recently registered under the name (None if there is none), and
\* list_available and get_available_plugins have exactly one entry per
\* distinct registered name.
C4_RegisterKeepsLatest ==
    \A n \in PluginNames :
        /\ RegistryGet(plugins, n) = lastRegistered[n]
        /\ CountName(GetAvailablePlugins(plugins), n)
              = (IF lastRegistered[n] # 0 THEN 1 ELSE 0)
        /\ CountName([i \in 1..Len(plugins) |->
                         ListAvailable(plugins, initialized)[i].name], n)
              = (IF lastRegistered[n] # 0 THEN 1 ELSE 0)

\* a name was registered twice and get returns the second plugin
C4_Witness ==
    \E n \in PluginNames :
        /\ lastRegistered[n] >= 2
        /\ Len(plugins) < nRegistered
        /\ RegistryGet(plugins, n) = lastRegistered[n]
        /\ Len(plugins) >= 2

\* C5: initialize_all calls initialize exactly once on every registered
\* plugin, each with its own config, also when the initialize of another
\* plugin raises or fails, and initialize_all itself does not raise.
C5_InitializeAllIsolates ==
    /\ iaPc # "raised"
    /\ iaPc = "done" =>
          \A i \in 1..Len(plugins) :
              /\ initCalls[plugins[i].inst] = 1
              /\ initConfig[plugins[i].inst] = ConfigGet(iaConfig, plugins[i].name)

\* initialize_all returned although one initialize raised, and a plugin
\* later in the loop was initialized successfully
C5_Witness ==
    /\ iaPc = "done"
    /\ \E i, j \in 1..Len(plugins) :
          /\ i < j
          /\ initRaised[plugins[i].inst]
          /\ initCalls[plugins[j].inst] = 1
          /\ initialized[plugins[j].inst]

\* The configuration gives the backend no credentials (API key) or, for
\* the MCP backend, no server URL.
MissingCredentials(name, cfg) ==
    IF name = "mcp" THEN Falsy(MCPServerUrl(cfg)) ELSE Falsy(cfg.api_key)

\* C6: an initialize call with missing credentials or with an unreachable
\* endpoint returns normally and leaves initialized = false.
C6_InitializeNeverRaises ==
    (/\ lastInit.name # "none"
     /\ \/ MissingCredentials(lastInit.name, lastInit.cfg)
        \/ ~lastInit.env.reachable)
    => (~lastInit.raised /\ ~lastInit.initialized)

(***************************************************************************)
(* Properties of the parsers                                               *)
(***************************************************************************)
Max0(n) == IF n < 0 THEN 0 ELSE n

ReportConsistent(r) ==
    /\ r.total_tests >= r.failed + r.skipped + r.errors
    /\ r.passed = Max0(r.total_tests - r.failed - r.skipped - r.errors)

\* the runs <<t, k>> of a certification document whose status, upper-cased, is in S
RunsWithStatus(doc, S) ==
    {tk \in (1..Len(doc)) \X (1..MaxCases + 1) :
        /\ tk[2] <= Len(doc[tk[1]])
        /\ doc[tk[1]][tk[2]] # NoSummary
        /\ Upper(doc[tk[1]][tk[2]]) \in S}

RunsWithoutSummary(doc) ==
    {tk \in (1..Len(doc)) \X (1..MaxCases + 1) :
        /\ tk[2] <= Len(doc[tk[1]])
        /\ doc[tk[1]][tk[2]] = NoSummary}

\* C3 as stated: every report of each of the four parsers has
\* total >= failed + skipped + errors and
\* passed = max(0, total - failed - skipped - errors).
C3_EveryReportConsistent == pDone => ReportConsistent(pResult)

\* C3 as amended: the JUnit parser's reports satisfy both relations; the
\* certification parser's reports satisfy
\* total = passed + failed + skipped + errors + review + runs without summary,
\* hence total >= failed + skipped + errors and passed >= 0.
C3_JUnitAndCertCounts ==
    /\ (pDone /\ parser = "junit") => ReportConsistent(pResult)
    /\ (pDone /\ parser = "cert") =>
          /\ pResult.total_tests = pResult.passed + pResult.failed + pResult.skipped
                                   + pResult.errors + pResult.review
                                   + Cardinality(RunsWithoutSummary(pInput))
          /\ pResult.total_tests >= pResult.failed + pResult.skipped + pResult.errors
          /\ pResult.passed >= 0

\* a JUnit report with a passed, a failed and an errored testcase, one of
\* them having more than one of the three children
C3_Witness ==
    /\ pDone /\ parser = "junit"
    /\ pResult.passed >= 1 /\ pResult.failed >= 1 /\ pResult.errors >= 1
    /\ \E su \in 1..Len(pInput.suites) : \E k \in 1..Len(pInput.suites[su]) :
          Cardinality(pInput.suites[su][k]) >= 2

\* C10: in the certification parser a REVIEW run increments only the review
\* counter and adds exactly one 'review' entry to failures; the number of
\* 'review' entries equals review and the number of 'failure' entries
\* equals failed.
C10_ReviewCountedSeparately ==
    (pDone /\ parser = "cert") =>
        /\ pResult.review = Cardinality(RunsWithStatus(pInput, {"REVIEW"}))
        /\ pResult.failed = Cardinality(RunsWithStatus(pInput, {"FAIL"}))
        /\ pResult.passed = Cardinality(RunsWithStatus(pInput, {"PASS"}))
        /\ pResult.skipped = Cardinality(RunsWithStatus(pInput, {"SKIP"}))
        /\ pResult.errors = Cardinality(RunsWithStatus(pInput, {"UNKNOWN"}))
        /\ \A tk \in RunsWithStatus(pInput, {"REVIEW"}) :
              Cardinality({i \in 1..Len(pResult.failures) :
                              pResult.failures[i].test_name = tk}) = 1
              /\ \A i \in 1..Len(pResult.failures) :
                    pResult.failures[i].test_name = tk
                        => pResult.failures[i].failure_type = "review"
        /\ CountType(pResult.failures, "review") = pResult.review
        /\ CountType(pResult.failures, "failure") = pResult.failed

\* a certification report with a REVIEW run (also one in lower case) and a FAIL run
C10_Witness ==
    /\ pDone /\ parser = "cert"
    /\ pResult.review >= 2 /\ pResult.failed >= 1
    /\ \E t \in 1..Len(pInput) : \E k \in 1..Len(pInput[t]) : pInput[t][k] = "review"

(***************************************************************************)
(* Properties of the analysis server (SpecServer).                         *)
(***************************************************************************)
EventsOfKind(kind) == {i \in 1..Len(events) : events[i].kind = kind}

\* C1: the SSE sequence of a streaming response never holds more than one
\* [DONE] event, nothing follows it, and a response that has ended holds
\* exactly one, whatever the backend stream did.
C1_ExactlyOneDoneLast ==
    /\ Cardinality(EventsOfKind("done")) <= 1
    /\ \A i \in EventsOfKind("done") : i = Len(events)
    /\ sPc = "end" => Cardinality(EventsOfKind("done")) = 1

\* a response that ended after chunks and a failure of the backend
C1_Witness ==
    /\ sPc = "end" /\ backendFailed /\ chunks >= 1
    /\ Len(events) >= 3

\* C2: a failure of the backend during a streaming call is carried as
\* exactly one error event before [DONE] and not as a text event.
C2_BackendFailureIsErrorEvent ==
    (sPc = "end" /\ backendFailed) =>
        /\ Cardinality(EventsOfKind("error")) = 1
        /\ \A i \in EventsOfKind("text") : events[i].payload # ErrorText

RequestedInst == RegistryGet(plugins, req.backend)

\* C7: a request naming a registered plugin that is not initialized is
\* rejected with an error status, streams nothing and makes no network call.
C7_UninitializedRejected ==
    (req # NoReq /\ RequestedInst # 0 /\ ~initialized[RequestedInst]) =>
        /\ rStatus >= 400
        /\ reqNet = 0
        /\ sPc = "none"
        /\ events = <<>>
        /\ ~ctx.built

\* a streaming request and a second request, both to a registered plugin
\* that is not initialized
C7_Witness ==
    /\ req # NoReq /\ RequestedInst # 0 /\ ~initialized[RequestedInst]
    /\ req.stream /\ nReq = 2 /\ rStatus = 503

\* C9: the context built for a certification XML with REVIEW runs carries
\* the review count in its summary and the review records in its failures.
C9_ReviewInContext ==
    (ctx.built /\ IsRhcertXmlFile(req.test_folder)
        /\ RHCertXMLParse(jobDir.cert).review > 0) =>
        /\ "review" \in DOMAIN ctx.test_summary
        /\ CountType(ctx.test_failures, "review") = RHCertXMLParse(jobDir.cert).review

\* C28: an entry of the result cache is never changed or removed once it is
\* written, a request that builds a context builds it from the entry of its
\* key, and a request that ends before it has results leaves the cache as it
\* was.
C28_CacheWrittenOnce ==
    [][/\ \A k \in DOMAIN cache : k \in DOMAIN cache' /\ cache'[k] = cache[k]
       /\ (nReq' # nReq /\ ctx'.built) =>
             /\ req'.test_folder \in DOMAIN cache'
             /\ ctx' = BuildContext(cache'[req'.test_folder])
       /\ (nReq' # nReq /\ ~ctx'.built) => cache' = cache]_vars

\* a second request, naming the other extract_path, has got the results that
\* the first request parsed from the directory of the job
C28_Witness ==
    /\ nReq = 2 /\ ctx.built
    /\ req.extract_path = "extracted/other"
    /\ req.test_folder = "rhoso"
    /\ ParseTempestResults(jobDir, "rhoso").status = 200
    /\ ctx = BuildContext(ParseTempestResults(jobDir, "rhoso").results)
    /\ ctx # BuildContext(ParseTempestResults(OtherDir, "rhoso").results)

(***************************************************************************)
(* Properties of the log correlation (SpecLogs).                           *)
(***************************************************************************)
\* C8: a call of find_related_logs returns the list that the call returns
\* for every other iteration order of the keyword set on the same tree,
\* test name, error message and max_results.
C8_FindRelatedDeterministic ==
    lgCalls >= 1 =>
        \A keywords \in ExtractKeywords(lgInput.test_name, lgInput.error_message) :
            FindRelatedLogs(lgInput, keywords) = lgResult

\* a second call, with the keywords in another order, on a tree where two
\* files match several keywords and come out in the order opposite to the walk
C8_Witness ==
    /\ lgCalls = 2
    /\ Len(lgOrder) >= 3
    /\ Len(lgResult) = 2
    /\ lgResult[1] = lgInput.files[2].path
    /\ lgResult[2] = lgInput.files[1].path

\* filename score plus content score of a file, the content read only when
\* the file is under 10 MB
TotalScore(file, keywords) ==
    CalculateRelevanceScore(file, keywords, 1, 0)
    + (IF file.small THEN ScanLogContent(file.lines, keywords, 1, 0) ELSE 0)

\* C20: the candidates of find_related_logs are the files with an accepted
\* extension whose total score is greater than 0, a file whose content alone
\* matches included: the result lists candidates only, and all of them up to
\* max_results.
C20_CandidateIffPositiveTotal ==
    (lgCalls >= 1 /\ lgInput.exists /\ lgOrder # <<>>) =>
        LET candidates == {i \in 1..Len(lgInput.files) :
                              /\ HasLogExtension(lgInput.files[i])
                              /\ TotalScore(lgInput.files[i], lgOrder) > 0}
        IN /\ \A r \in 1..Len(lgResult) :
                 \E i \in candidates : lgInput.files[i].path = lgResult[r]
           /\ Len(lgResult) = IF Cardinality(candidates) < lgInput.max_results
                              THEN Cardinality(candidates)
                              ELSE lgInput.max_results

\* the position in the walk of the file with this path
WalkIndex(path) == CHOOSE i \in 1..Len(lgInput.files) : lgInput.files[i].path = path

\* the candidates: accepted extension and a keyword in the file name
Candidates(keywords) ==
    {i \in 1..Len(lgInput.files) :
        /\ HasLogExtension(lgInput.files[i])
        /\ CalculateRelevanceScore(lgInput.files[i], keywords, 1, 0) > 0}

IteratedCases(doc) ==
    IF doc.root \in {"testsuites", "testsuite"}
    THEN {sk \in (1..Len(doc.suites)) \X (1..MaxCases) :
             sk[2] <= Len(doc.suites[sk[1]])}
    ELSE {}

\* the class of a testcase: its first present child in the order failure,
\* error, skipped
FirstChild(tc) ==
    IF "failure" \in tc THEN "failure"
    ELSE IF "error" \in tc THEN "error"
    ELSE IF "skipped" \in tc THEN "skip"
    ELSE "passed"

CasesOfClass(doc, class) ==
    {sk \in IteratedCases(doc) : FirstChild(doc.suites[sk[1]][sk[2]]) = class}

EntriesOf(failures, name) == {i \in 1..Len(failures) : failures[i].test_name = name}

\* C11: the JUnit parser puts every iterated testcase into exactly one of
\* passed, failed, errors, skipped by its first present child; a testcase
\* has one failures entry of that kind iff it has such a child, so the four
\* counts add up to total and the failures list has failed + errors +
\* skipped entries.
C11_JUnitClassification ==
    (pDone /\ parser = "junit") =>
        /\ pResult.total_tests = Cardinality(IteratedCases(pInput))
        /\ pResult.passed = Cardinality(CasesOfClass(pInput, "passed"))
        /\ pResult.failed = Cardinality(CasesOfClass(pInput, "failure"))
        /\ pResult.errors = Cardinality(CasesOfClass(pInput, "error"))
        /\ pResult.skipped = Cardinality(CasesOfClass(pInput, "skip"))
        /\ pResult.total_tests
              = pResult.passed + pResult.failed + pResult.errors + pResult.skipped
        /\ Len(pResult.failures) = pResult.failed + pResult.errors + pResult.skipped
        /\ \A sk \in IteratedCases(pInput) :
              LET class == FirstChild(pInput.suites[sk[1]][sk[2]])
                  entries == EntriesOf(pResult.failures, sk)
              IN IF class = "passed" THEN entries = {}
                 ELSE /\ Cardinality(entries) = 1
                      /\ \A i \in entries : pResult.failures[i].failure_type = class

\* a report with a passed testcase and a testcase that has both a failure
\* and an error child
C11_Witness ==
    /\ pDone /\ parser = "junit"
    /\ CasesOfClass(pInput, "passed") # {}
    /\ \E sk \in IteratedCases(pInput) :
          {"failure", "error"} \subseteq pInput.suites[sk[1]][sk[2]]
    /\ CasesOfClass(pInput, "skip") # {}

(***************************************************************************)
(* Properties of the failure record of a certification run (SpecParse).    *)
(***************************************************************************)
\* the lines of the output as the parser splits them
SplitOutput == StripSplit(pInput.output)

NonBlankIndexes(lines) == {i \in 1..Len(lines) : ~IsBlankLine(lines[i])}

MatchingIndexes(lines) == {i \in 1..Len(lines) : HasErrorWord(lines[i])}

SetMin(S) == CHOOSE x \in S : \A y \in S : x <= y

\* the first of the last n elements of the set of indexes S
FirstOfLast(S, n) ==
    CHOOSE x \in S : /\ Cardinality({y \in S : y >= x}) <= n
                     /\ \A z \in S : z < x => Cardinality({y \in S : y >= z}) > n

\* C12 as stated: the message of a FAIL run is the first line with an error
\* word cut to 200 characters or, without such a line, the first of the last
\* 10 non-blank lines of the output cut to 200 characters; the record has
\* kind 'failure'.
C12_MessageFromLastNonBlank ==
    (pDone /\ parser = "cert_failure" /\ pInput.has_output
        /\ NonBlankIndexes(SplitOutput) # {}) =>
        /\ pResult.failure_type = "failure"
        /\ pResult.error_message =
              IF MatchingIndexes(SplitOutput) # {}
              THEN Truncate(SplitOutput[SetMin(MatchingIndexes(SplitOutput))], MessageLimit)
              ELSE Truncate(SplitOutput[FirstOfLast(NonBlankIndexes(SplitOutput), TailLines)],
                            MessageLimit)

\* the lines among the last 10 lines of the output
TailIndexes(lines) == {i \in 1..Len(lines) : i > Len(lines) - TailLines}

\* C12: the message of a FAIL run is the first line with an error word cut
\* to 200 characters or, without such a line, the first non-blank line among
\* the last 10 lines of the output cut to 200 characters, or the default
\* message when these are all blank; the record has kind 'failure', and a
\* first matching line "Error: disk full" gives that message.
C12_MessageFromOutput ==
    (pDone /\ parser = "cert_failure" /\ pInput.has_output
        /\ NonBlankIndexes(SplitOutput) # {}) =>
        LET matching == MatchingIndexes(SplitOutput)
            tail == NonBlankIndexes(SplitOutput) \cap TailIndexes(SplitOutput)
        IN /\ pResult.failure_type = "failure"
           /\ pResult.error_message.len <= MessageLimit
           /\ pResult.error_message =
                 IF matching # {} THEN Truncate(SplitOutput[SetMin(matching)], MessageLimit)
                 ELSE IF tail # {} THEN Truncate(SplitOutput[SetMin(tail)], MessageLimit)
                 ELSE DefaultMessage
           /\ (matching # {} /\ SplitOutput[SetMin(matching)].text = "Error: disk full")
                 => pResult.error_message = [text |-> "Error: disk full", len |-> 16]

\* a FAIL run whose output has a line without error word, blank lines and
\* then the line "Error: disk full"
C12_Witness ==
    /\ pDone /\ parser = "cert_failure" /\ pInput.has_output
    /\ Len(pInput.output) > TailLines
    /\ ~HasErrorWord(pInput.output[1]) /\ ~IsBlankLine(pInput.output[1])
    /\ pResult.error_message = [text |-> "Error: disk full", len |-> 16]

\* the number of text lines of a list of traceback entries
RECURSIVE LineCount(_, _)
LineCount(entries, n) ==
    IF n = 0 THEN 0 ELSE LineCount(entries, n - 1) + entries[n].lines

\* the commands with a "Command failed" annotation in the traceback
Annotated == {pResult.traceback[i].cmd : i \in {j \in 1..Len(pResult.traceback) :
                                                  pResult.traceback[j].kind = "command"}}

\* C22: "Command failed" annotations are in the traceback only for commands
\* whose return code is not 0 (a command without a return code counts as
\* such), for at most the first 5 of them, and the traceback has at most 50
\* lines.
C22_CommandAnnotationsCapped ==
    (pDone /\ parser = "cert_failure") =>
        /\ \A c \in Annotated : pInput.commands[c].rc # "0"
        /\ Cardinality(Annotated) <= 5
        /\ \A c \in Annotated :
              Cardinality({d \in 1..c : pInput.commands[d].rc # "0"}) <= 5
        /\ LineCount(pResult.traceback, Len(pResult.traceback)) <= 50

(***************************************************************************)
(* Properties of the attachment parser (SpecParse).                        *)
(***************************************************************************)
IsFound(file) == IsValidationFile(file.fname)

\* the component files found, in walk order
FoundFiles == SelectSeq(pInput.files, IsFound)

\* a field of the `total` object of a file, 0 when the file has none
TotalField(file, field) ==
    IF file.loads /\ file.total # NoTotal THEN file.total[field] ELSE 0

SumOfTotals(field) ==
    SumTo([i \in 1..Len(FoundFiles) |-> TotalField(FoundFiles[i], field)], Len(FoundFiles))

RECURSIVE ConcatFailures(_, _)
ConcatFailures(components, n) ==
    IF n = 0 THEN <<>> ELSE ConcatFailures(components, n - 1) \o components[n].failures

RECURSIVE ConcatSkipped(_, _)
ConcatSkipped(components, n) ==
    IF n = 0 THEN <<>> ELSE ConcatSkipped(components, n - 1) \o components[n].skipped_tests

\* C13: the aggregate counts of the attachment parser are the field-wise
\* sums of the `total` objects of the component files found, and its
\* failures and skipped lists are the per-component lists concatenated in
\* file order; one file with tests 10, success 7, failures 2, skipped 1,
\* errors 0 gives exactly these counts.
C13_AggregateIsSum ==
    (pDone /\ parser = "attachments" /\ pInput.exists) =>
        /\ pResult.total_tests = SumOfTotals("tests")
        /\ pResult.passed = SumOfTotals("success")
        /\ pResult.failed = SumOfTotals("failures")
        /\ pResult.skipped = SumOfTotals("skipped")
        /\ pResult.errors = SumOfTotals("errors")
        /\ Len(pResult.components) = Len(FoundFiles)
        /\ \A i \in 1..Len(FoundFiles) :
              /\ pResult.components[i].component_name
                    = ExtractComponentName(FoundFiles[i].fname)
              /\ Len(pResult.components[i].failures)
                    = Cardinality({k \in 1..Len(FoundFiles[i].cases) :
                          /\ FoundFiles[i].cases[k].status = "FAIL"
                          /\ FoundFiles[i].cases[k].failure})
              /\ Len(pResult.components[i].skipped_tests)
                    = Cardinality({k \in 1..Len(FoundFiles[i].cases) :
                          FoundFiles[i].cases[k].status = "SKIP"})
        /\ pResult.failures = ConcatFailures(pResult.components, Len(FoundFiles))
        /\ pResult.skipped_tests = ConcatSkipped(pResult.components, Len(FoundFiles))
        /\ (Len(FoundFiles) = 1 /\ FoundFiles[1].loads
              /\ FoundFiles[1].total = [tests |-> 10, success |-> 7, failures |-> 2,
                                        skipped |-> 1, errors |-> 0])
              => /\ pResult.total_tests = 10 /\ pResult.passed = 7
                 /\ pResult.failed = 2 /\ pResult.skipped = 1 /\ pResult.errors = 0

\* two component files with `total` objects, the first with a failure
C13_Witness ==
    /\ pDone /\ parser = "attachments" /\ pInput.exists
    /\ Len(FoundFiles) = 2
    /\ pResult.total_tests = 11 /\ pResult.failed = 4
    /\ Len(pResult.failures) >= 1

\* a component file that loads and has neither a `total` object nor test cases
LoadedEmpty(file) ==
    [fname |-> file.fname, loads |-> TRUE, total |-> NoTotal, cases |-> <<>>]

\* the directory with every file that does not load replaced by an empty file
\* that loads
WithFailedAsEmpty(dir) ==
    [dir EXCEPT !.files = [i \in 1..Len(dir.files) |->
        IF dir.files[i].loads THEN dir.files[i] ELSE LoadedEmpty(dir.files[i])]]

\* C18: when a component file cannot be read or parsed, the result keeps the
\* counts and failures of the files that parsed and reports the failed file:
\* the result is not the one of a directory where that file is an empty
\* component.
C18_FailedFileReported ==
    (/\ pDone /\ parser = "attachments" /\ pInput.exists
     /\ \E i \in 1..Len(FoundFiles) : ~FoundFiles[i].loads) =>
        /\ pResult.total_tests = SumOfTotals("tests")
        /\ pResult.failures = ConcatFailures(pResult.components, Len(pResult.components))
        /\ pResult # RHCertAttachmentParse(WithFailedAsEmpty(pInput))

\* the entries of a list of a component that stand for test case k
EntriesFor(list, k) == Cardinality({e \in 1..Len(list) : list[e].test_name = k})

\* C24: in a component report that loads, a test case with status FAIL has
\* exactly one entry in the component's failures and none in skipped_tests,
\* one with status SKIP exactly one in skipped_tests and none in failures,
\* and one with any other status has no entry.
C24_StatusDecidesBucket ==
    (pDone /\ parser = "attachments" /\ pInput.exists) =>
        \A i \in 1..Len(FoundFiles) : FoundFiles[i].loads =>
            \A k \in 1..Len(FoundFiles[i].cases) :
                LET status == FoundFiles[i].cases[k].status
                    component == pResult.components[i]
                IN /\ EntriesFor(component.failures, k)
                         = IF status = "FAIL" THEN 1 ELSE 0
                   /\ EntriesFor(component.skipped_tests, k)
                         = IF status = "SKIP" THEN 1 ELSE 0

\* the sum of a field over the entries of components_summary
RECURSIVE SumOverSummary(_, _, _)
SumOverSummary(summary, names, field) ==
    IF names = {} THEN 0
    ELSE LET n == CHOOSE x \in names : TRUE
         IN summary[n][field] + SumOverSummary(summary, names \ {n}, field)

\* C29: in the result of the attachment parser the sums of total, passed,
\* failed and skipped over the entries of components_summary are the
\* aggregate total_tests, passed, failed and skipped.
C29_SummaryMatchesAggregate ==
    (pDone /\ parser = "attachments" /\ pInput.exists) =>
        LET summary == pResult.components_summary
            Sum(field) == SumOverSummary(summary, DOMAIN summary, field)
        IN /\ Sum("total") = pResult.total_tests
           /\ Sum("passed") = pResult.passed
           /\ Sum("failed") = pResult.failed
           /\ Sum("skipped") = pResult.skipped

\* C14: after a call that extracted keywords, every known service name and
\* every resource noun that occurs in the test name or in the error message
\* is one of the keywords.
C14_ServicesAndResourcesExtracted ==
    (lgCalls >= 1 /\ lgInput.exists) =>
        \A w \in Services \cup Resources :
            (\/ ContainsWord(Range(lgInput.test_name), w)
             \/ ContainsWord(Range(lgInput.error_message), w))
                => w \in Range(lgOrder)

\* C15: once the consumer has abandoned a streaming response, the backend
\* stream opened for the request is not open.
C15_AbandonClosesBackend ==
    sPc = "abandoned" => conn # "open"

(***************************************************************************)
(* Properties of the health checks (SpecHealth).                           *)
(***************************************************************************)
\* C16: every health_check that waits for its backend returns, also when
\* the backend never answers.
C16_HealthCheckReturns ==
    \A name \in PluginNames : (hcPc[name] = "waiting") ~> (hcPc[name] = "returned")

(***************************************************************************)
(* Properties of the chat conversations (SpecChat).                        *)
(***************************************************************************)
HasChatRole(entry) == entry.role \in {"user", "assistant"}

\* the backend's name of a history role
NativeRole(backend, role) ==
    IF backend = "gemini_chat" /\ role = "assistant" THEN "model" ELSE role

\* the turns in front of the history: Gemini gets the system prompt and an
\* acknowledgement as the first two turns
PreambleLen(backend) == IF backend = "gemini_chat" THEN 2 ELSE 0

\* C17: the conversation sent to the backend holds the history entries with
\* role user or assistant, all of them, in their order and with the role
\* kept (assistant under the backend's name for it), and then the new user
\* message as the last turn; a history with these two roles only is sent
\* whole.
C17_HistoryPreserved ==
    (pDone /\ parser \in ChatBackends) =>
        IF parser = "mcp_chat"
        THEN pResult.history = pInput.history /\ pResult.message = pInput.message
        ELSE LET entries == SelectSeq(pInput.history, HasChatRole)
                 pre == PreambleLen(parser)
             IN /\ Len(pResult) = pre + Len(entries) + 1
                /\ \A i \in 1..Len(entries) :
                      pResult[pre + i] = Turn(NativeRole(parser, entries[i].role),
                                              entries[i].content)
                /\ pResult[Len(pResult)] = Turn("user", pInput.message)
                /\ (\A i \in 1..Len(pInput.history) : HasChatRole(pInput.history[i]))
                      => entries = pInput.history

\* a Gemini chat whose history is a user entry, an assistant entry and
\* another user entry
C17_Witness ==
    /\ pDone /\ parser = "gemini_chat"
    /\ Len(pInput.history) = 3
    /\ pInput.history[1].role = "user"
    /\ pInput.history[2].role = "assistant"
    /\ pInput.history[3].role = "user"
    /\ pInput.history[1].content # pInput.history[3].content
    /\ Len(pResult) = 6

(***************************************************************************)
(* Properties of get_file_size_human (SpecSize).                           *)
(***************************************************************************)
\* the size is 1024^n
IsPowerOf1024(size, n) ==
    /\ size[n + 1] = 1
    /\ \A j \in 1..Len(size) : j # n + 1 => size[j] = 0

\* the index of the highest digit that is not zero, 0 for size 0
TopDigit(size) ==
    IF \A j \in 1..Len(size) : size[j] = 0 THEN 0
    ELSE (CHOOSE j \in 1..Len(size) :
             size[j] # 0 /\ \A i \in (j + 1)..Len(size) : size[i] = 0) - 1

\* C19: the unit has the index k with 1024^k <= size < 1024^(k+1) (B below
\* 1024, PB from 1024^5 up) and the number printed is size / 1024^k to two
\* decimals; 1024^n is 1.00 of unit n, 1536 is 1.50 KB, 2097152 is 2.00 MB.
C19_UnitAndValue ==
    (pDone /\ parser = "get_file_size_human") =>
        LET k == TopDigit(pInput)
            printed == 100 * pResult.whole + pResult.decimals
            floor == 100 * pInput[k + 1]
                     + (100 * SizeFraction(pInput, k)) \div 1048576
        IN /\ pResult.unit = Units[k + 1]
           /\ pResult.decimals \in 0..99
           /\ printed \in floor..(floor + 1)
           /\ \A n \in 0..5 : IsPowerOf1024(pInput, n) =>
                 pResult = [whole |-> 1, decimals |-> 0, unit |-> Units[n + 1]]
           /\ pInput = <<512, 1, 0, 0, 0, 0>> =>
                 pResult = [whole |-> 1, decimals |-> 50, unit |-> "KB"]
           /\ pInput = <<0, 0, 2, 0, 0, 0>> =>
                 pResult = [whole |-> 2, decimals |-> 0, unit |-> "MB"]

\* the size 1024^3 has been formatted
C19_Witness ==
    /\ pDone /\ parser = "get_file_size_human"
    /\ IsPowerOf1024(pInput, 3)
    /\ pResult.unit = "GB"

(***************************************************************************)
(* Properties of the MCP event stream decoder (SpecSSE).                   *)
(***************************************************************************)
\* the chunk a line stands for: none for a line without the prefix, the text
\* field of a JSON payload that has one, the payload itself when it is not
\* JSON
ChunksOfLine(line) ==
    IF ~line.prefix THEN <<>>
    ELSE IF line.json = "none" THEN <<[kind |-> "raw", text |-> line.payload]>>
    ELSE IF line.json = "dict" /\ line.has_text THEN <<[kind |-> "text", text |-> "a"]>>
    ELSE <<>>

RECURSIVE ChunksOfLines(_, _)
ChunksOfLines(lines, n) ==
    IF n = 0 THEN <<>> ELSE ChunksOfLines(lines, n - 1) \o ChunksOfLine(lines[n])

IsDoneLine(line) == line.prefix /\ line.payload = "[DONE]"

\* C23: on a 200 response the decoder yields, for the lines it has gone
\* through, the text field of the JSON payloads and the other payloads
\* verbatim, nothing for lines without the prefix; and it stops only at the
\* first [DONE] payload or at the end of the input.
C23_DecoderStopsAtDoneOnly ==
    (parser = "mcp_stream" /\ pInput.status = 200 /\ pResult.pc # "post") =>
        /\ \A i \in 1..(pResult.pos - 1) : ~IsDoneLine(pInput.lines[i])
        /\ pDone =>
              \/ pResult.pos > Len(pInput.lines)
              \/ IsDoneLine(pInput.lines[pResult.pos])
        /\ pResult.yielded = ChunksOfLines(pInput.lines, pResult.pos - 1)

(***************************************************************************)
(* Properties of the non-streaming analysis results (SpecComplete).        *)
(***************************************************************************)
\* the confidence of a backend, in hundredths
BackendConfidence(backend) ==
    IF backend = "gemini_complete" THEN 85
    ELSE IF backend = "claude_complete" THEN 90
    ELSE 75

\* C25: every AnalysisResult of a non-streaming analyze call has the
\* confidence of its backend, one value per backend that lies in [0, 1],
\* whatever the backend answered.
C25_ConfidenceIsBackendConstant ==
    (pDone /\ parser \in CompleteBackends /\ ~pResult.raised) =>
        /\ pResult.confidence = BackendConfidence(parser)
        /\ pResult.confidence \in 0..100

(***************************************************************************)
(* Properties of the file access check (SpecAccess).                       *)
(***************************************************************************)
\* path is dir itself or lies inside the directory dir
IsInside(path, dir) ==
    /\ Len(path) >= Len(dir)
    /\ \A i \in 1..Len(dir) : path[i] = dir[i]

\* C26: validate_path_traversal is true for the requested path only when it
\* resolves to the job's extraction directory or to a place inside it, and a
\* path that check_file_access reports as safe resolves to such a place.
C26_SafePathIsInside ==
    (pDone /\ parser = "check_file_access") =>
        LET base == Append(ExtractFolder, pInput.job_id)
            full == JoinPath(base, pInput.file_path)
        IN /\ validate_path_traversal(full, base) => IsInside(AbsPath(full), base)
           /\ pResult.is_safe => IsInside(AbsPath(pResult.full_path), base)

(***************************************************************************)
(* Properties of the extraction job (SpecJob).                             *)
(***************************************************************************)
\* C27: every extraction job started by an upload eventually has the status
\* 'completed', with progress 100, or the status 'error'.
C27_JobReachesTerminalStatus ==
    <>(\/ pResult.status = "completed" /\ pResult.progress = 100
       \/ pResult.status = "error")

(***************************************************************************)
(* Properties of paginate (SpecPage).                                      *)
(***************************************************************************)
\* C30: for every page and per_page, paginate returns at most
\* min(per_page, MAX_PAGE_SIZE) items (none when that is not positive), a
\* page number in 1..max(1, total_pages), and start_index and end_index that
\* are the positions of the first and the last returned item in the list
\* (start_index 0 when nothing is returned).
C30_PageWithinBounds ==
    (pDone /\ parser = "paginate") =>
        LET per_page == get_pagination_params(pInput.args).per_page
        IN /\ Len(pResult.items) <= MaxOf(0, MinOf(per_page, MAX_PAGE_SIZE))
           /\ pResult.page \in 1..MaxOf(1, pResult.total_pages)
           /\ IF pResult.items = <<>> THEN pResult.start_index = 0
              ELSE /\ pResult.start_index \in 1..Len(pInput.items)
                   /\ pResult.end_index \in pResult.start_index..Len(pInput.items)
                   /\ pResult.items
                         = SubSeq(pInput.items, pResult.start_index, pResult.end_index)

====
